---- MODULE Spec2Model ----
(***************************************************************************)
(* A model of the speed-blockchain node: account state and the state       *)
(* transition, the mempool, proposer selection, the consensus engine, the  *)
(* block store, the Blockchain orchestrator and the BlockchainService.     *)
(*                                                                         *)
(* Conventions.                                                            *)
(*  - keccak256 is modelled as collision free: a digest is the pair        *)
(*    <<layout tag, preimage>>, so two digests are equal exactly when the  *)
(*    hashed byte strings are equal.  All hashed fields have a fixed width *)
(*    (u64: 8 bytes, U256/B256: 32 bytes, Address: 20 bytes), so a         *)
(*    preimage is the tuple of its fields in the order they are appended.  *)
(*  - a signature is the pair <<signer, prehash>>; recovering it from the  *)
(*    prehash it was made over yields the signer, recovering it from any   *)
(*    other prehash yields an address nobody owns.                         *)
(*  - U256 is modelled at a reduced width (0 .. U256_MAX) with the wrapping *)
(*    and checked operations of the real type; gas quantities are scaled   *)
(*    down to fit, keeping their order relations.                          *)
(***************************************************************************)
EXTENDS Integers, Sequences, FiniteSets, TLC

VARIABLES
    state,      \* StateManager: [accounts : live Address -> Account, state_root]
    st_call,    \* the last apply_transaction call: [pre, tx, result]; in SpecTransfer
                \* also its config and the transactions applied successfully so far
    mempool,    \* Mempool.transactions: the set of pending transactions (keyed by hash)
    mp_call,    \* the last Mempool::add_transaction call: [pre, tx, result]
    selection,  \* SpecProposer: two ProposerSelection instances, "a" and "b"
    now,        \* SystemTime::now(), in seconds since the epoch
    consensus,  \* ConsensusEngine
    consensus_lock, \* the Mutex around the ConsensusEngine: "free", or "leaked" once a
                \* task waits forever while holding its guard
    store,      \* Storage: [block_by_hash, hash_by_index, last_index]
    service,    \* BlockchainService: [role, status]
    outbound,   \* the messages sent on to_network_sender, oldest first
    call        \* the last Blockchain / BlockchainService operation and its outcome

stateVars == <<state, st_call>>
mempoolVars == <<mempool, mp_call>>
nodeVars == <<now, consensus, consensus_lock, store, service, outbound, call>>
vars == <<state, st_call, mempool, mp_call, selection,
          now, consensus, consensus_lock, store, service, outbound, call>>

-----------------------------------------------------------------------------
(* Bounds of the model *)

\* largest value of the reduced-width U256
U256_MAX == 1023
\* largest nonce an account reaches in the model
MaxNonce == 2

-----------------------------------------------------------------------------
(* Primitive types *)

\* the addresses of the model; Address orders by its bytes, here by the number
Addresses == 1 .. 3
\* what recovering a signature from a foreign prehash yields
UnownedAddress == 0

U256Modulus == U256_MAX + 1
wrapping_add(a, b) == (a + b) % U256Modulus
wrapping_mul(a, b) == (a * b) % U256Modulus
None == -1
checked_add(a, b) == IF a + b <= U256_MAX THEN a + b ELSE None
checked_sub(a, b) == IF a >= b THEN a - b ELSE None

\* layout tags of the digests
TagZero == 0
TagTx == 1
TagTxRoot == 2
TagState == 3
TagHeader == 4
TagText == 5
TagAttest == 6

keccak256(tag, data) == <<tag, data>>
B256_ZERO == <<TagZero, <<>>>>

Signature(signer, prehash) == <<signer, prehash>>
\* a signature whose r and s are no scalars of the curve (all zero, say) has signer None:
\* recovering from it is an Err, given as None
recover_address_from_prehash(signature, prehash) ==
    IF signature[1] = None THEN None
    ELSE IF signature[2] = prehash THEN signature[1] ELSE UnownedAddress

-----------------------------------------------------------------------------
(* Account and State *)

Account_new(address) == [balance |-> 0, nonce |-> 0, address |-> address]

State_new == [accounts |-> <<>>, state_root |-> B256_ZERO]

get_account(s, address) ==
    IF address \in DOMAIN s.accounts THEN s.accounts[address] ELSE Account_new(address)

\* the addresses of a set in ascending order
RECURSIVE SortedAddresses(_)
SortedAddresses(S) ==
    IF S = {} THEN <<>>
    ELSE LET lo == CHOOSE a \in S : \A b \in S : a <= b
         IN  <<lo>> \o SortedAddresses(S \ {lo})

RECURSIVE AccountData(_, _)
AccountData(accounts, addrs) ==
    IF addrs = <<>> THEN <<>>
    ELSE LET a == Head(addrs)
         IN  <<a, accounts[a].balance, accounts[a].nonce>> \o AccountData(accounts, Tail(addrs))

calculate_state_root(accounts) ==
    LET data == AccountData(accounts, SortedAddresses(DOMAIN accounts))
    IN  IF data = <<>> THEN B256_ZERO ELSE keccak256(TagState, data)

\* a slip: an account with zero balance and zero nonce is inserted like any other
set_account_keeps_empty(s, address, account) ==
    LET accounts ==
            [a \in DOMAIN s.accounts \cup {address} |->
                IF a = address THEN account ELSE s.accounts[a]]
    IN  [accounts |-> accounts, state_root |-> calculate_state_root(accounts)]

set_account(s, address, account) ==
    LET accounts ==
            IF account.balance = 0 /\ account.nonce = 0
            THEN [a \in DOMAIN s.accounts \ {address} |-> s.accounts[a]]
            ELSE [a \in DOMAIN s.accounts \cup {address} |->
                     IF a = address THEN account ELSE s.accounts[a]]
    IN  [accounts |-> accounts, state_root |-> calculate_state_root(accounts)]

get_state_root(s) == s.state_root
get_balance(s, address) == get_account(s, address).balance
get_nonce(s, address) == get_account(s, address).nonce

fund_account(s, address, amount) ==
    LET account == get_account(s, address)
    IN  set_account(s, address, [account EXCEPT !.balance = wrapping_add(@, amount)])

-----------------------------------------------------------------------------
(* Transaction *)

calculate_hash(tx) ==
    keccak256(TagTx, <<tx.from, tx.to, tx.amount, tx.gas_limit, tx.gas_price,
                       tx.timestamp, tx.nonce>>)

max_transaction_cost(tx) == wrapping_add(tx.amount, wrapping_mul(tx.gas_limit, tx.gas_price))

\* Ok(recovered address), Err(HashMismatch), or the panic of .unwrap() on the Err
\* of the recovery
Transaction_verify_signature(tx) ==
    LET recovered_address == recover_address_from_prehash(tx.signature, calculate_hash(tx))
    IN  IF calculate_hash(tx) # tx.hash THEN [kind |-> "Err", address |-> None]
        ELSE IF recovered_address = None THEN [kind |-> "Panic", address |-> None]
        ELSE [kind |-> "Ok", address |-> recovered_address]

\* the value returned when verify_signature returns; its panic unwinds through here
is_signature_valid(tx) ==
    LET r == Transaction_verify_signature(tx)
    IN  r.kind = "Ok" /\ r.address = tx.from

\* a transaction whose hash field is its hash, signed over it by `signer`
SignedTx(from, to, amount, gas_limit, gas_price, timestamp, nonce, signer) ==
    LET body == [from |-> from, to |-> to, amount |-> amount, gas_limit |-> gas_limit,
                 gas_price |-> gas_price, timestamp |-> timestamp, nonce |-> nonce]
        h == calculate_hash(body)
    IN  [from |-> from, to |-> to, amount |-> amount, gas_limit |-> gas_limit,
         gas_price |-> gas_price, timestamp |-> timestamp, nonce |-> nonce,
         signature |-> Signature(signer, h), hash |-> h]

-----------------------------------------------------------------------------
(* Gas *)

\* GasConfig::default(), scaled: intrinsic_gas 21_000 -> 10, gas_per_byte 4 -> 1,
\* min_gas_price 10^9 -> 2, block_gas_limit 10^6 -> 100
GasConfig_default ==
    [intrinsic_gas |-> 10, gas_per_byte |-> 1, min_gas_price |-> 2, block_gas_limit |-> 100]

\* another configuration, for the calls that take the configuration as an argument
GasConfig_other ==
    [intrinsic_gas |-> 20, gas_per_byte |-> 0, min_gas_price |-> 1, block_gas_limit |-> 60]

calculate_instrinsic_gas(config) ==
    wrapping_add(config.intrinsic_gas, wrapping_mul(config.gas_per_byte, 40))

validate_gas_price(gas_price, config) == gas_price >= config.min_gas_price

validate_gas_limit(gas_limit, config) ==
    gas_limit >= config.intrinsic_gas /\ gas_limit <= config.block_gas_limit

-----------------------------------------------------------------------------
(* State transition *)

NoError == [name |-> "", a |-> 0, b |-> 0]
StOk(s, gas_used) ==
    [state |-> s, result |-> [kind |-> "Ok", gas_used |-> gas_used, error |-> NoError]]
StErr(s, name, a, b) ==
    [state |-> s,
     result |-> [kind |-> "Err", gas_used |-> 0, error |-> [name |-> name, a |-> a, b |-> b]]]
\* checked_sub(..).unwrap() on None: the call panics, nothing was written
StPanic(s) ==
    [state |-> s, result |-> [kind |-> "Panic", gas_used |-> 0, error |-> NoError]]

\* a slip: the sender is written back before the recipient's overflow check
apply_transaction_partial(s, tx, config) ==
    LET intrinsic_gas == calculate_instrinsic_gas(config)
        sender == get_account(s, tx.from)
        recipient == get_account(s, tx.to)
        max_cost == max_transaction_cost(tx)
        total_cost == wrapping_add(tx.amount, wrapping_mul(intrinsic_gas, tx.gas_price))
    IN  IF ~validate_gas_price(tx.gas_price, config) THEN StErr(s, "GasPriceTooLow", 0, 0)
        ELSE IF ~validate_gas_limit(tx.gas_limit, config) THEN StErr(s, "InvalidGasLimit", 0, 0)
        ELSE IF tx.gas_limit < intrinsic_gas
             THEN StErr(s, "InsufficientGas", tx.gas_limit, intrinsic_gas)
        ELSE IF tx.from = tx.to THEN StErr(s, "SameAddress", 0, 0)
        ELSE IF sender.balance < max_cost
             THEN StErr(s, "InsufficientBalance", sender.balance, max_cost)
        ELSE IF tx.nonce # sender.nonce
             THEN StErr(s, "InvalidNonce", sender.nonce, tx.nonce)
        ELSE IF checked_sub(sender.balance, total_cost) = None THEN StPanic(s)
        ELSE LET s1 == set_account(s, tx.from,
                           [sender EXCEPT !.nonce = @ + 1,
                                          !.balance = checked_sub(@, total_cost)])
             IN  IF checked_add(recipient.balance, tx.amount) = None
                 THEN StErr(s1, "BalanceOverflow", 0, 0)
                 ELSE StOk(set_account(s1, tx.to,
                               [recipient EXCEPT !.balance = checked_add(@, tx.amount)]),
                           intrinsic_gas)

\* a slip: the sender's nonce is written back as it was read
apply_transaction_same_nonce(s, tx, config) ==
    LET intrinsic_gas == calculate_instrinsic_gas(config)
        sender == get_account(s, tx.from)
        recipient == get_account(s, tx.to)
        max_cost == max_transaction_cost(tx)
        total_cost == wrapping_add(tx.amount, wrapping_mul(intrinsic_gas, tx.gas_price))
    IN  IF ~validate_gas_price(tx.gas_price, config) THEN StErr(s, "GasPriceTooLow", 0, 0)
        ELSE IF ~validate_gas_limit(tx.gas_limit, config) THEN StErr(s, "InvalidGasLimit", 0, 0)
        ELSE IF tx.gas_limit < intrinsic_gas
             THEN StErr(s, "InsufficientGas", tx.gas_limit, intrinsic_gas)
        ELSE IF tx.from = tx.to THEN StErr(s, "SameAddress", 0, 0)
        ELSE IF sender.balance < max_cost
             THEN StErr(s, "InsufficientBalance", sender.balance, max_cost)
        ELSE IF tx.nonce # sender.nonce
             THEN StErr(s, "InvalidNonce", sender.nonce, tx.nonce)
        ELSE IF checked_add(recipient.balance, tx.amount) = None
             THEN StErr(s, "BalanceOverflow", 0, 0)
        ELSE IF checked_sub(sender.balance, total_cost) = None THEN StPanic(s)
        ELSE LET s1 == set_account(s, tx.from,
                           [sender EXCEPT !.balance = checked_sub(@, total_cost)])
             IN  StOk(set_account(s1, tx.to,
                          [recipient EXCEPT !.balance = checked_add(@, tx.amount)]),
                      intrinsic_gas)

apply_transaction(s, tx, config) ==
    LET intrinsic_gas == calculate_instrinsic_gas(config)
        sender == get_account(s, tx.from)
        recipient == get_account(s, tx.to)
        max_cost == max_transaction_cost(tx)
        gas_used == intrinsic_gas
        gas_cost == wrapping_mul(gas_used, tx.gas_price)
        total_cost == wrapping_add(tx.amount, gas_cost)
    IN  IF ~validate_gas_price(tx.gas_price, config) THEN StErr(s, "GasPriceTooLow", 0, 0)
        ELSE IF ~validate_gas_limit(tx.gas_limit, config) THEN StErr(s, "InvalidGasLimit", 0, 0)
        ELSE IF tx.gas_limit < intrinsic_gas
             THEN StErr(s, "InsufficientGas", tx.gas_limit, intrinsic_gas)
        ELSE IF tx.from = tx.to THEN StErr(s, "SameAddress", 0, 0)
        ELSE IF sender.balance < max_cost
             THEN StErr(s, "InsufficientBalance", sender.balance, max_cost)
        ELSE IF tx.nonce # sender.nonce
             THEN StErr(s, "InvalidNonce", sender.nonce, tx.nonce)
        ELSE IF checked_add(recipient.balance, tx.amount) = None
             THEN StErr(s, "BalanceOverflow", 0, 0)
        ELSE IF checked_sub(sender.balance, total_cost) = None THEN StPanic(s)
        ELSE LET s1 == set_account(s, tx.from,
                           [sender EXCEPT !.nonce = @ + 1,
                                          !.balance = checked_sub(@, total_cost)])
                 s2 == set_account(s1, tx.to,
                           [recipient EXCEPT !.balance = checked_add(@, tx.amount)])
             IN  StOk(s2, gas_used)

-----------------------------------------------------------------------------
(* Mempool *)

\* the entries .values().find(..) can return: the HashMap's iteration order is
\* unspecified, so any entry with the same sender and nonce may be the first found
find_candidates(transactions, transaction) ==
    { t \in transactions : t.from = transaction.from /\ t.nonce = transaction.nonce }

\* Mempool::validate_transaction: "" for Ok, else the error text
Mempool_validate_transaction(transaction) ==
    IF transaction.amount < 0 THEN "Transaction amount cannot be negative"
    ELSE IF transaction.gas_price < 0 THEN "Transaction gas price cannot be negative"
    ELSE IF transaction.from = transaction.to THEN "Cannot send transaction to yourself"
    ELSE ""

\* `existing` is the entry find returned, or NoTx when it returned nothing
replace_transaction_by_fee(transactions, transaction, existing) ==
    IF existing \in transactions
    THEN IF transaction.gas_price > existing.gas_price
         THEN [transactions |-> { t \in transactions : t.hash # existing.hash },
               result |-> "Ok"]
         ELSE [transactions |-> transactions, result |-> "Ok"]
    ELSE [transactions |-> transactions, result |-> "Ok"]

\* HashMap::insert: the entry under the key is replaced
HashMap_insert(transactions, key, transaction) ==
    { t \in transactions : t.hash # key } \cup {transaction}

Mempool_add_transaction(transactions, transaction, existing) ==
    IF Transaction_verify_signature(transaction).kind = "Panic"
    THEN [transactions |-> transactions, result |-> "Panic"]
    ELSE IF ~is_signature_valid(transaction)
    THEN [transactions |-> transactions, result |-> "Err"]
    ELSE LET r == replace_transaction_by_fee(transactions, transaction, existing)
         IN  IF r.result # "Ok"
             THEN [transactions |-> r.transactions, result |-> "Err"]
             ELSE [transactions |-> HashMap_insert(r.transactions, transaction.hash, transaction),
                   result |-> "Ok"]

get_all_transactions(transactions) == transactions
clear_all_transactions(transactions) == {}

-----------------------------------------------------------------------------
(* Validator set and proposer selection *)

ValidatorSet_new(min_stake) ==
    [validators |-> <<>>, order |-> <<>>, total_stake |-> 0, min_stake |-> min_stake]

\* the sequences that list every element of S once
Orders(S) ==
    { q \in [1 .. Cardinality(S) -> S] : \A i, j \in 1 .. Cardinality(S) : q[i] = q[j] => i = j }

\* `order` is the order in which the HashMap iterates after the insertion: any
\* order of its keys
add_validator(vs, address, stake, order) ==
    IF stake < vs.min_stake THEN vs
    ELSE [vs EXCEPT
            !.validators = [a \in DOMAIN vs.validators \cup {address} |->
                IF a = address
                THEN [address |-> address, staked_amount |-> stake, is_active |-> TRUE,
                      last_block_proposed |-> 0, slash_count |-> 0]
                ELSE vs.validators[a]],
            !.order = order,
            !.total_stake = @ + stake]

\* .values().filter(..).collect(): the validators in the HashMap's iteration order
get_active_validators(vs) ==
    SelectSeq([i \in 1 .. Len(vs.order) |-> vs.validators[vs.order[i]]],
              LAMBDA v : v.is_active /\ v.staked_amount >= vs.min_stake)

is_active_validator(vs, address) ==
    /\ address \in DOMAIN vs.validators
    /\ vs.validators[address].is_active
    /\ vs.validators[address].staked_amount >= vs.min_stake

\* the first u64 of the ChaCha20 stream seeded with seed[0..8] = slot and the rest
\* of randomness_seed: a fixed function of both
ChaCha20_next_u64(slot, randomness_seed) ==
    (slot * slot * 31 + slot * 17 + randomness_seed * 13 + 7) % 65536

RECURSIVE SumStake(_)
SumStake(vals) == IF vals = <<>> THEN 0 ELSE Head(vals).staked_amount + SumStake(Tail(vals))

RECURSIVE WalkStake(_, _, _)
WalkStake(vals, cumulative_stake, random_stake) ==
    IF vals = <<>> THEN None
    ELSE IF random_stake < cumulative_stake + Head(vals).staked_amount
         THEN Head(vals).address
         ELSE WalkStake(Tail(vals), cumulative_stake + Head(vals).staked_amount, random_stake)

ProposerSelection_new(validator_set, randomness_seed) ==
    [validator_set |-> validator_set, randomness_seed |-> randomness_seed]

\* what selector_proposer yields when `random_bytes % total_stake` panics on a
\* total_stake of 0
RemainderByZero == -2

\* Ok(address), or Err(NoActiveValidators) as None
selector_proposer(ps, slot) ==
    LET active_validators == get_active_validators(ps.validator_set)
    IN  IF active_validators = <<>> THEN None
        ELSE IF SumStake(active_validators) = 0 THEN RemainderByZero
        ELSE LET random_bytes == ChaCha20_next_u64(slot, ps.randomness_seed)
                 total_stake == SumStake(active_validators)
                 random_stake == random_bytes % total_stake
             IN  WalkStake(active_validators, 0, random_stake)

-----------------------------------------------------------------------------
(* Block header and block *)

\* Option<T> of a value that is not a number: None is <<>>, Some(x) is <<x>>
OptionNone == <<>>
Some(x) == <<x>>

BlockHeader_hash(header) ==
    keccak256(TagHeader, <<header.index, header.parent_hash, header.slot, header.timestamp,
                           header.proposer, header.transactions_root, header.state_root>>)

\* a placeholder where no block is meant
NoBlock ==
    [header |-> [index |-> 0, parent_hash |-> B256_ZERO, slot |-> 0, timestamp |-> 0,
                 proposer |-> UnownedAddress, transactions_root |-> B256_ZERO,
                 state_root |-> B256_ZERO, validator_signature |-> OptionNone],
     transactions |-> <<>>]

-----------------------------------------------------------------------------
(* Execution engine *)

\* the literal 21000 of simulate_execute_block, on the scale of GasConfig_default
SimulateGasFloor == 10

RECURSIVE SimulateLoop(_, _, _, _, _)
SimulateLoop(s, transactions, temp_nonces, temp_balances, valid_transactions) ==
    IF transactions = <<>> THEN valid_transactions
    ELSE LET tx == Head(transactions)
             current_nonce == IF tx.from \in DOMAIN temp_nonces THEN temp_nonces[tx.from]
                              ELSE get_nonce(s, tx.from)
             current_balance == IF tx.from \in DOMAIN temp_balances THEN temp_balances[tx.from]
                                ELSE get_balance(s, tx.from)
             max_cost == wrapping_add(tx.amount, wrapping_mul(tx.gas_limit, tx.gas_price))
         IN  IF /\ tx.nonce = current_nonce
                /\ tx.gas_limit >= SimulateGasFloor
                /\ current_balance >= max_cost
             THEN SimulateLoop(s, Tail(transactions),
                               (tx.from :> current_nonce + 1) @@ temp_nonces,
                               (tx.from :> current_balance - max_cost) @@ temp_balances,
                               Append(valid_transactions, tx))
             ELSE SimulateLoop(s, Tail(transactions), temp_nonces, temp_balances,
                               valid_transactions)

simulate_execute_block(s, transactions) == SimulateLoop(s, transactions, <<>>, <<>>, <<>>)

Receipt_success(transaction_hash, gas_used) ==
    [transaction_hash |-> transaction_hash, gas_used |-> gas_used, success |-> TRUE,
     error_message |-> ""]
Receipt_failed(transaction_hash, gas_used, error) ==
    [transaction_hash |-> transaction_hash, gas_used |-> gas_used, success |-> FALSE,
     error_message |-> error]

\* the loop of execute_block_commit; `panicked` when apply_transaction panicked, which
\* unwinds the call with the earlier transactions already applied
RECURSIVE ExecuteLoop(_, _, _, _)
ExecuteLoop(s, transactions, receipts, total_gas_used) ==
    IF transactions = <<>>
    THEN [state |-> s, receipts |-> receipts, total_gas_used |-> total_gas_used,
          panicked |-> FALSE]
    ELSE LET Applied(tx, r) ==
                 IF r.result.kind = "Panic"
                 THEN [state |-> s, receipts |-> receipts, total_gas_used |-> total_gas_used,
                       panicked |-> TRUE]
                 ELSE IF r.result.kind = "Ok"
                 THEN ExecuteLoop(r.state, Tail(transactions),
                                  Append(receipts, Receipt_success(tx.hash, r.result.gas_used)),
                                  wrapping_add(total_gas_used, r.result.gas_used))
                 ELSE ExecuteLoop(r.state, Tail(transactions),
                                  Append(receipts, Receipt_failed(tx.hash, tx.gas_limit,
                                                                  r.result.error.name)),
                                  wrapping_add(total_gas_used, tx.gas_limit))
         IN  Applied(Head(transactions),
                     apply_transaction(s, Head(transactions), GasConfig_default))

execute_block_commit(s, block) ==
    LET Executed(r) ==
            [state |-> r.state, panicked |-> r.panicked,
             result |-> [receipts |-> r.receipts, total_gas_used |-> r.total_gas_used,
                         state_root |-> get_state_root(r.state)]]
    IN  Executed(ExecuteLoop(s, block.transactions, <<>>, 0))

\* get_pending_transactions: the mempool's values in the HashMap's iteration order
get_pending_transactions(transactions) == Orders(get_all_transactions(transactions))

-----------------------------------------------------------------------------
(* Consensus engine *)

\* SLOT_DURATION (common/constants.rs), seconds
SLOT_DURATION == 10
\* how far ahead of the local clock a block's timestamp may be, seconds
FutureTolerance == 30

ConsensusEngine_new(slot_duration_seconds, validator_set, randomness_seed, local_keypair, time) ==
    [slot_duration |-> slot_duration_seconds, genesis_time |-> time, current_slot |-> 0,
     current_block_number |-> 0, current_block_hash |-> B256_ZERO,
     proposer_selection |-> ProposerSelection_new(validator_set, randomness_seed),
     local_keypair |-> local_keypair]

calculate_current_slot(ce, time) == (time - ce.genesis_time) \div ce.slot_duration

calculate_transactions_root(transactions) ==
    IF transactions = <<>> THEN B256_ZERO
    ELSE keccak256(TagTxRoot, [i \in 1 .. Len(transactions) |-> transactions[i].hash])

calculate_block_hash(header) ==
    keccak256(TagHeader, <<header.index, header.parent_hash, header.timestamp, header.slot,
                           header.proposer, header.state_root, header.transactions_root>>)

\* Result<bool>: "true", "false" or "err"
ConsensusEngine_validate_block(ce, block, time) ==
    IF block.header.index # ce.current_block_number + 1 THEN "false"
    ELSE IF block.header.parent_hash # ce.current_block_hash THEN "false"
    ELSE LET expected_proposer == selector_proposer(ce.proposer_selection, block.header.slot)
         IN  IF expected_proposer = None THEN "err"
             ELSE IF block.header.proposer # expected_proposer THEN "false"
             ELSE IF block.header.timestamp > time + FutureTolerance THEN "false"
             ELSE IF calculate_transactions_root(block.transactions)
                        # block.header.transactions_root THEN "false"
             ELSE IF calculate_block_hash(block.header) # BlockHeader_hash(block.header)
                  THEN "false"
             ELSE "true"

\* Result<bool>: "true", "false" or "err"
should_produce_block(ce, time) ==
    LET current_slot == calculate_current_slot(ce, time)
    IN  IF current_slot <= ce.current_slot THEN "false"
        ELSE LET selected_proposer == selector_proposer(ce.proposer_selection, current_slot)
             IN  IF selected_proposer = None THEN "err"
                 ELSE IF ce.local_keypair = None THEN "false"
                 ELSE IF ce.local_keypair = selected_proposer THEN "true" ELSE "false"

\* Result<Block>: [ok, block]
create_block(ce, transactions, time) ==
    LET current_slot == calculate_current_slot(ce, time)
        timestamp == time
        proposer == selector_proposer(ce.proposer_selection, current_slot)
    IN  IF proposer = None THEN [ok |-> FALSE, block |-> NoBlock]
        ELSE [ok |-> TRUE,
              block |-> [header |-> [index |-> ce.current_block_number + 1,
                                     parent_hash |-> ce.current_block_hash,
                                     timestamp |-> timestamp,
                                     slot |-> current_slot,
                                     proposer |-> proposer,
                                     state_root |-> B256_ZERO,
                                     transactions_root |-> calculate_transactions_root(transactions),
                                     validator_signature |-> OptionNone],
                         transactions |-> transactions]]

\* the signature made when the local key is the proposer is bound to _signature and
\* dropped: the returned block differs from the argument in its state_root only
finalize_block(ce, block, execution_result) ==
    [block EXCEPT !.header.state_root = execution_result.state_root]

update_best_block(ce, block) ==
    [ce EXCEPT !.current_block_number = block.header.index,
               !.current_block_hash = BlockHeader_hash(block.header),
               !.current_slot = block.header.slot]

-----------------------------------------------------------------------------
(* Storage *)

\* an empty database
Storage_new == [block_by_hash |-> <<>>, hash_by_index |-> <<>>, last_index |-> None]

\* serde_json::to_vec_pretty of a Block: the fields in the order of the structs, the
\* header first, then the transactions in their order
serde_json_to_vec(block) ==
    <<<<block.header.index, block.header.parent_hash, block.header.slot,
        block.header.timestamp, block.header.proposer, block.header.transactions_root,
        block.header.state_root, block.header.validator_signature>>,
      [i \in DOMAIN block.transactions |->
          LET tx == block.transactions[i]
          IN  <<tx.from, tx.to, tx.amount, tx.timestamp, tx.nonce, tx.gas_limit,
                tx.gas_price, tx.signature, tx.hash>>]>>

\* serde_json::from_slice::<Block>
serde_json_from_slice(json) ==
    [header |-> [index |-> json[1][1], parent_hash |-> json[1][2], slot |-> json[1][3],
                 timestamp |-> json[1][4], proposer |-> json[1][5],
                 transactions_root |-> json[1][6], state_root |-> json[1][7],
                 validator_signature |-> json[1][8]],
     transactions |->
        [i \in DOMAIN json[2] |->
            [from |-> json[2][i][1], to |-> json[2][i][2], amount |-> json[2][i][3],
             timestamp |-> json[2][i][4], nonce |-> json[2][i][5],
             gas_limit |-> json[2][i][6], gas_price |-> json[2][i][7],
             signature |-> json[2][i][8], hash |-> json[2][i][9]]]]

\* the three kinds of key differ in length (32 bytes, 8 bytes, the 10 bytes of
\* "last_index"), so each kind is a map of its own
put_block_hash_to_block(db, block_hash, block) ==
    [db EXCEPT !.block_by_hash = (block_hash :> serde_json_to_vec(block)) @@ @]
\* Ok(Option<Block>)
get_block_from_block_hash(db, block_hash) ==
    IF block_hash \in DOMAIN db.block_by_hash
    THEN Some(serde_json_from_slice(db.block_by_hash[block_hash]))
    ELSE OptionNone
put_index_to_block_hash(db, index, block_hash) ==
    [db EXCEPT !.hash_by_index = (index :> block_hash) @@ @]
\* Ok(Option<B256>)
get_block_hash_from_index(db, index) ==
    IF index \in DOMAIN db.hash_by_index THEN Some(db.hash_by_index[index]) ELSE OptionNone
put_last_index(db, index) == [db EXCEPT !.last_index = index]
get_last_index(db) == db.last_index

\* a slip: the height -> hash entry is not written
Storage_store_block_without_index(db, block) ==
    put_last_index(put_block_hash_to_block(db, BlockHeader_hash(block.header), block),
                   block.header.index)

Storage_store_block(db, block) ==
    put_last_index(
        put_index_to_block_hash(
            put_block_hash_to_block(db, BlockHeader_hash(block.header), block),
            block.header.index, BlockHeader_hash(block.header)),
        block.header.index)

\* Blockchain::get_last_index: an absent marker reads as 0
Blockchain_get_last_index(db) == IF get_last_index(db) = None THEN 0 ELSE get_last_index(db)

-----------------------------------------------------------------------------
(* Blockchain *)

verify_proposer_signature(block, proposer_id, signature) ==
    IF proposer_id # block.header.proposer THEN FALSE
    ELSE recover_address_from_prehash(signature, BlockHeader_hash(block.header)) = proposer_id

validate_execution(s, block) ==
    Len(simulate_execute_block(s, block.transactions)) = Len(block.transactions)

\* Result<bool>: "true", "false" or "err"
Blockchain_validate_block(ce, s, block, time) ==
    LET Validated(consensus_valid) ==
            IF consensus_valid = "err" THEN "err"
            ELSE IF consensus_valid = "false" THEN "false"
            ELSE IF ~validate_execution(s, block) THEN "false"
            ELSE "true"
    IN  Validated(ConsensusEngine_validate_block(ce, block, time))

\* the execution result is dropped; nothing is compared with the header
commit_validated_block(ce, s, db, block) ==
    LET Committed(e) ==
            IF e.panicked
            THEN [panicked |-> TRUE, consensus |-> ce, state |-> e.state, store |-> db]
            ELSE [panicked |-> FALSE, consensus |-> update_best_block(ce, block),
                  state |-> e.state, store |-> Storage_store_block(db, block)]
    IN  Committed(execute_block_commit(s, block))

\* a slip: the block is committed before it is validated
process_received_block_commit_first(ce, s, db, block, proposer_id, signature, time) ==
    LET Rejected(block_hash, reason, node) ==
            [kind |-> "Rejected", block_hash |-> block_hash, reason |-> reason,
             node |-> node]
        Processed(block_hash, valid, committed) ==
            IF valid = "true"
            THEN [kind |-> "Accepted", block_hash |-> block_hash, reason |-> "",
                  node |-> committed]
            ELSE IF valid = "false"
                 THEN Rejected(block_hash, "Block validation failed",
                               [committed EXCEPT !.panicked = FALSE])
            ELSE Rejected(block_hash, "Validation error",
                          [committed EXCEPT !.panicked = FALSE])
    IN  IF ~verify_proposer_signature(block, proposer_id, signature)
        THEN Rejected(BlockHeader_hash(block.header), "Invalid signature",
                      [panicked |-> FALSE, consensus |-> ce, state |-> s, store |-> db])
        ELSE Processed(BlockHeader_hash(block.header),
                       Blockchain_validate_block(ce, s, block, time),
                       commit_validated_block(ce, s, db, block))

\* BlockProcessResult: [kind, block_hash, reason], with the node after the call
process_received_block(ce, s, db, block, proposer_id, signature, time) ==
    LET Rejected(block_hash, reason) ==
            [kind |-> "Rejected", block_hash |-> block_hash, reason |-> reason,
             node |-> [panicked |-> FALSE, consensus |-> ce, state |-> s, store |-> db]]
        Processed(block_hash, valid) ==
            IF valid = "true"
            THEN [kind |-> "Accepted", block_hash |-> block_hash, reason |-> "",
                  node |-> commit_validated_block(ce, s, db, block)]
            ELSE IF valid = "false" THEN Rejected(block_hash, "Block validation failed")
            ELSE Rejected(block_hash, "Validation error")
    IN  IF ~verify_proposer_signature(block, proposer_id, signature)
        THEN Rejected(BlockHeader_hash(block.header), "Invalid signature")
        ELSE Processed(BlockHeader_hash(block.header),
                       Blockchain_validate_block(ce, s, block, time))

\* produce_block up to its second consensus_engine.lock(): the guard taken at the
\* entry is still alive there, and a tokio Mutex is not reentrant, so a call that gets
\* this far waits forever with the lock held ("Deadlock")
produce_block(ce, s, pending_txs, time) ==
    LET Outcome(should_process, valid_transactions) ==
            IF should_process = "err" THEN "Err: Proposer selection failed"
            ELSE IF should_process = "false"
                 THEN "Err: Not selected as proposer for current slot"
            ELSE IF pending_txs = <<>> THEN "Err: No transactions to mine"
            ELSE IF valid_transactions = <<>> THEN "Err: No valid transactions"
            ELSE "Deadlock"
        Frame(should_process, valid_transactions) ==
            [outcome |-> Outcome(should_process, valid_transactions),
             pending_txs |-> pending_txs,
             valid_transactions |-> IF should_process = "true" /\ pending_txs # <<>>
                                    THEN valid_transactions ELSE <<>>]
    IN  Frame(should_produce_block(ce, time), simulate_execute_block(s, pending_txs))

\* the transactions produce_block hands to create_block once it holds the lock
create_block_argument(frame) == frame.pending_txs

-----------------------------------------------------------------------------
(* Blockchain service *)

AttestationVote_Accept == [kind |-> "Accept", reason |-> ""]
AttestationVote_Reject(reason) == [kind |-> "Reject", reason |-> reason]

\* keccak256 of the text hex::encode(block_hash)
verify_block_signature(block_hash, proposer_id, signature) ==
    recover_address_from_prehash(signature, keccak256(TagText, block_hash)) = proposer_id

create_and_send_attestation(out, keypair, validator_address, block_hash, vote) ==
    Append(out, [type |-> "Attestation", block_hash |-> block_hash,
                 validator |-> validator_address, vote |-> vote,
                 signature |-> Signature(keypair, keccak256(TagAttest, <<block_hash, vote>>))])

\* propose_block after produce_block returned Ok(new_block): [ok, outbound]
propose_block_send(out, new_block, validator_address) ==
    IF new_block.header.validator_signature = OptionNone
    THEN [ok |-> FALSE, outbound |-> out]
    ELSE [ok |-> TRUE,
          outbound |-> Append(out, [type |-> "NewBlock", block |-> new_block,
                                    proposer |-> validator_address,
                                    signature |-> new_block.header.validator_signature[1]])]

-----------------------------------------------------------------------------
(* The node: construction parameters and the record of the last operation *)

\* the seed Blockchain::new passes, [1u8; 32], as a number
RandomnessSeed == 1
\* the min_stake of the node (MIN_STAKE, common/constants.rs)
MIN_STAKE == 100
\* the clock at construction, seconds since the epoch: far above any slot number
StartTime == 1000
\* the address of the node's own key, and of another validator
LocalAddress == 1
OtherValidator == 2

NoFrame == [outcome |-> "", pending_txs |-> <<>>, valid_transactions |-> <<>>]

\* what an operation found when it was called
Snapshot(ce, s, pool, db, out) ==
    [consensus |-> ce, state |-> s, mempool |-> pool, store |-> db, outbound |-> out]

NoNodeCall ==
    [op |-> "", result |-> "", frame |-> NoFrame, committed |-> NoBlock,
     replayed_root |-> B256_ZERO,
     pre |-> Snapshot(ConsensusEngine_new(SLOT_DURATION, ValidatorSet_new(MIN_STAKE),
                                          RandomnessSeed, None, StartTime),
                      State_new, {}, Storage_new, <<>>)]

\* the node variables in the specifications that do not use them
NodeIdle ==
    /\ now = StartTime
    /\ consensus = ConsensusEngine_new(SLOT_DURATION, ValidatorSet_new(MIN_STAKE),
                                       RandomnessSeed, None, StartTime)
    /\ consensus_lock = "free"
    /\ store = Storage_new
    /\ service = [role |-> "Attestor", status |-> "running", from_network |-> "open",
                  to_network |-> "open"]
    /\ outbound = <<>>
    /\ call = NoNodeCall

-----------------------------------------------------------------------------
(* Specification SpecState: apply_transaction and fund_account on every     *)
(* input state, transaction and configuration of the sets below.            *)

NoTx == SignedTx(0, 0, 0, 0, 0, 0, 0, 0)
NoMpCall == [pre |-> {}, tx |-> NoTx, result |-> ""]
NoSelection == [i \in {"a", "b"} |-> ProposerSelection_new(ValidatorSet_new(0), 0)]
NoCall == [pre |-> State_new, tx |-> NoTx, result |-> [kind |-> "", gas_used |-> 0, error |-> NoError]]

\* the input states: account 1 absent or holding enough for some transfers, account 2
\* absent or holding the largest U256, account 3 absent
StStates ==
    { fund_account(fund_account(State_new, 1, b1), 2, b2) : b1 \in {0, 400}, b2 \in {0, U256_MAX} }

StConfigs == {GasConfig_default, GasConfig_other}

\* <<gas_limit, gas_price>>: a limit below intrinsic_gas; one between intrinsic_gas
\* and the intrinsic cost; the intrinsic cost; a price below the minimum; a pair
\* whose reserved cost gas_limit * gas_price wraps; a limit above the block limit
StGas == {<<5, 2>>, <<30, 2>>, <<50, 2>>, <<50, 0>>, <<52, 20>>, <<101, 2>>}
StAmounts == {0, 100}

\* <<from, to>>: transfers between the accounts, to an absent account, to oneself
StParties == {<<1, 2>>, <<2, 1>>, <<1, 3>>, <<1, 1>>}

StTxs ==
    { SignedTx(p[1], p[2], a, g[1], g[2], 0, n, p[1]) :
        p \in StParties, a \in StAmounts, g \in StGas, n \in {0, 1} }

ApplyTransaction(tx, config) ==
    /\ get_nonce(state, tx.from) < MaxNonce
    /\ LET r == apply_transaction(state, tx, config)
       IN  /\ state' = r.state
           /\ st_call' = [pre |-> state, tx |-> tx, result |-> r.result]
    /\ UNCHANGED <<mempoolVars, selection, nodeVars>>

InitState ==
    /\ state \in StStates
    /\ st_call = NoCall
    /\ mempool = {}
    /\ mp_call = NoMpCall
    /\ selection = NoSelection
    /\ NodeIdle

NextState == \E tx \in StTxs, config \in StConfigs : ApplyTransaction(tx, config)

SpecState == InitState /\ [][NextState]_vars

-----------------------------------------------------------------------------
(* C1: when apply_transaction returns an error, the account map and the     *)
(* state root are those of before the call.                                 *)
C1_FailureLeavesStateUnchanged ==
    st_call.result.kind = "Err" =>
        /\ state.accounts = st_call.pre.accounts
        /\ state.state_root = st_call.pre.state_root

\* a call failed at the last check (recipient overflow), after both accounts
\* were read, on a state that holds accounts
C1_Witness ==
    /\ st_call.result.kind = "Err"
    /\ st_call.result.error.name = "BalanceOverflow"
    /\ DOMAIN state.accounts # {}

-----------------------------------------------------------------------------
(* Specification SpecMempool: Mempool::add_transaction and                  *)
(* clear_all_transactions on a mempool that starts empty.                   *)

\* largest number of pending transactions the model lets the mempool hold
MaxPending == 4

\* <<from, to, gas_price, nonce, timestamp>> of the correctly signed inputs: two
\* senders, two nonces, two prices, and one transaction twice with two timestamps
MpShapes ==
    { <<f, 3, gp, n, 0>> : f \in {1, 2}, gp \in {2, 3}, n \in {0, 1} }
        \cup {<<1, 3, 2, 0, 1>>, <<1, 1, 2, 0, 0>>}

MpSignedTxs == { SignedTx(x[1], x[2], 1, 50, x[3], x[5], x[4], x[1]) : x \in MpShapes }

\* Mempool::new(1000) of ExecutionEngine::new, scaled: max_size 1000 -> 3
Mempool_max_size == 3

\* signed by somebody else; with a hash field that is not its hash; and carrying the
\* all-zero signature the tests build transactions with before they sign them
MpBadTxs ==
    { SignedTx(1, 3, 1, 50, 4, 0, 0, 2),
      [SignedTx(1, 3, 1, 50, 4, 0, 1, 1) EXCEPT !.hash = B256_ZERO],
      [SignedTx(1, 3, 1, 50, 4, 1, 0, 1) EXCEPT !.signature = Signature(None, B256_ZERO)] }

MpTxs == MpSignedTxs \cup MpBadTxs

AddTransaction(tx) ==
    /\ Cardinality(mempool) < MaxPending
    /\ \E existing \in (IF find_candidates(mempool, tx) = {} THEN {NoTx}
                        ELSE find_candidates(mempool, tx)) :
          LET r == Mempool_add_transaction(mempool, tx, existing)
          IN  /\ mempool' = r.transactions
              /\ mp_call' = [pre |-> mempool, tx |-> tx, result |-> r.result]
    /\ UNCHANGED <<stateVars, selection, nodeVars>>

ClearAllTransactions ==
    /\ mempool # {}
    /\ mempool' = clear_all_transactions(mempool)
    /\ mp_call' = NoMpCall
    /\ UNCHANGED <<stateVars, selection, nodeVars>>

InitMempool ==
    /\ state = State_new
    /\ st_call = NoCall
    /\ mempool = {}
    /\ mp_call = NoMpCall
    /\ selection = NoSelection
    /\ NodeIdle

NextMempool ==
    \/ \E tx \in MpTxs : AddTransaction(tx)
    \/ ClearAllTransactions

SpecMempool == InitMempool /\ [][NextMempool]_vars

-----------------------------------------------------------------------------
(* C2: the mempool holds at most one pending transaction for each           *)
(* (from, nonce) pair.                                                      *)
C2_OnePendingPerSenderNonce ==
    \A t1, t2 \in mempool : (t1.from = t2.from /\ t1.nonce = t2.nonce) => t1 = t2

-----------------------------------------------------------------------------
(* C15: add_transaction of a correctly signed transaction with the sender   *)
(* and nonce of another pending transaction returns an error and leaves the *)
(* mempool as it was when its gas_price is not above the pending one's;     *)
(* when it is above, the pending one is gone and the new one is pending.    *)
C15_ReplaceByFee ==
    \A p \in mp_call.pre :
        (/\ mp_call.result # ""
         /\ is_signature_valid(mp_call.tx)
         /\ p.from = mp_call.tx.from /\ p.nonce = mp_call.tx.nonce
         /\ p.hash # mp_call.tx.hash)
            => IF mp_call.tx.gas_price <= p.gas_price
               THEN mp_call.result = "Err" /\ mempool = mp_call.pre
               ELSE p \notin mempool /\ mp_call.tx \in mempool

-----------------------------------------------------------------------------
(* C16: the mempool never holds more than max_size transactions, and        *)
(* add_transaction of a correctly signed transaction on a mempool that      *)
(* holds max_size returns an error and inserts nothing.                     *)
C16_NeverMoreThanMaxSize ==
    /\ Cardinality(mempool) <= Mempool_max_size
    /\ (/\ mp_call.result # ""
        /\ is_signature_valid(mp_call.tx)
        /\ Cardinality(mp_call.pre) = Mempool_max_size)
          => mp_call.result = "Err" /\ mempool = mp_call.pre

-----------------------------------------------------------------------------
(* C17: every pending transaction carries its own hash and a signature over *)
(* it that recovers to its sender, and add_transaction of a transaction     *)
(* that does not returns an error and leaves the mempool as it was.         *)
C17_PendingTransactionsAreSigned ==
    /\ \A t \in mempool :
          /\ calculate_hash(t) = t.hash
          /\ recover_address_from_prehash(t.signature, t.hash) = t.from
    /\ (/\ mp_call.result # ""
        /\ \/ calculate_hash(mp_call.tx) # mp_call.tx.hash
           \/ recover_address_from_prehash(mp_call.tx.signature, mp_call.tx.hash)
                 # mp_call.tx.from)
          => mp_call.result = "Err" /\ mempool = mp_call.pre

-----------------------------------------------------------------------------
(* C28: selector_proposer returns Err(NoActiveValidators) exactly when no   *)
(* validator is active with a stake of at least min_stake, and for every    *)
(* other validator set and min_stake it returns the address of an active    *)
(* validator.                                                               *)
C28_SelectsAnActiveValidator ==
    \A i \in {"a", "b"}, slot \in 0 .. 6 :
        LET vs == selection[i].validator_set
            active == { a \in DOMAIN vs.validators :
                          vs.validators[a].is_active
                             /\ vs.validators[a].staked_amount >= vs.min_stake }
            selected == selector_proposer(selection[i], slot)
        IN  /\ selected = None <=> active = {}
            /\ active # {} => selected \in active

-----------------------------------------------------------------------------
(* Specification SpecProposer: two ProposerSelection instances, each built  *)
(* by add_validator calls in some order, with the same seed and the same    *)
(* min_stake, which may be 0.                                               *)

\* the slots the claims quantify over: 0 .. MaxSlot
MaxSlot == 6
Slots == 0 .. MaxSlot
\* the stakes add_validator is called with: none, below MIN_STAKE, MIN_STAKE, more
PsStakes == {0, 50, 100, 300}

AddValidator(i, address, stake) ==
    /\ address \notin DOMAIN selection[i].validator_set.validators
    /\ \E order \in Orders(IF stake < selection[i].validator_set.min_stake
                           THEN DOMAIN selection[i].validator_set.validators
                           ELSE DOMAIN selection[i].validator_set.validators \cup {address}) :
          selection' = [selection EXCEPT ![i].validator_set =
                            add_validator(@, address, stake,
                                IF stake < @.min_stake THEN @.order ELSE order)]
    /\ UNCHANGED <<stateVars, mempoolVars, nodeVars>>

InitProposer ==
    /\ state = State_new
    /\ st_call = NoCall
    /\ mempool = {}
    /\ mp_call = NoMpCall
    /\ \E min_stake \in {0, MIN_STAKE} :
          selection = [i \in {"a", "b"} |->
                          ProposerSelection_new(ValidatorSet_new(min_stake), RandomnessSeed)]
    /\ NodeIdle

NextProposer == \E i \in {"a", "b"}, address \in Addresses, stake \in PsStakes :
                    AddValidator(i, address, stake)

SpecProposer == InitProposer /\ [][NextProposer]_vars

-----------------------------------------------------------------------------
(* C3: two ProposerSelection instances that hold the same validators and    *)
(* the same seed select the same proposer for every slot.                   *)
C3_SameValidatorsSameProposer ==
    (/\ selection["a"].validator_set.validators = selection["b"].validator_set.validators
     /\ selection["a"].randomness_seed = selection["b"].randomness_seed)
        => \A slot \in Slots :
              selector_proposer(selection["a"], slot) = selector_proposer(selection["b"], slot)

-----------------------------------------------------------------------------
(* Specification Spec: one node.  Its Blockchain is driven through its      *)
(* public operations (fund_account on the state manager, the mempool,       *)
(* produce_block, process_received_block) and through the BlockchainService *)
(* loop (the block timer and inbound NewBlock messages), while the clock     *)
(* advances slot by slot.                                                   *)

\* the last slot the clock reaches
MaxNodeSlot == 3
\* the largest height a block is accepted at
MaxHeight == 2
\* the most messages the outbound channel holds
MaxOutbound == 2

\* the transactions of the node: a transfer of account 1, its successor by nonce,
\* and a transfer of account 3, which is never funded
Tx1 == SignedTx(1, 2, 100, 50, 2, 0, 0, 1)
Tx2 == SignedTx(1, 2, 100, 50, 2, 0, 1, 1)
Tx3 == SignedTx(3, 2, 100, 50, 2, 0, 0, 3)
NodeTxs == {Tx1, Tx2, Tx3}
NodeTxLists == {<<>>, <<Tx1>>, <<Tx1, Tx2>>, <<Tx3>>}

\* the validator sets Blockchain::new builds: the local key alone, or with another
\* validator, the HashMap iterating in either order
NodeValidatorSets ==
    LET alone == add_validator(ValidatorSet_new(MIN_STAKE), LocalAddress, MIN_STAKE,
                               <<LocalAddress>>)
    IN  {alone} \cup { add_validator(alone, OtherValidator, MIN_STAKE, order) :
                         order \in Orders({LocalAddress, OtherValidator}) }

\* a header that passes ConsensusEngine::validate_block on an empty chain: its
\* timestamp is its slot number and its state_root is its transactions_root
EarlierBlock(slot, proposer) ==
    [header |-> [index |-> 1, parent_hash |-> B256_ZERO, slot |-> slot, timestamp |-> slot,
                 proposer |-> proposer, transactions_root |-> B256_ZERO,
                 state_root |-> B256_ZERO, validator_signature |-> OptionNone],
     transactions |-> <<>>]

\* the database Storage::new opens: created empty, or left at DB_PATH by an earlier
\* run of the node that stored a block
NodeStores == {Storage_new, Storage_store_block(Storage_new, EarlierBlock(0, LocalAddress))}

\* the blocks a peer sends, built on the node's tip for the slot of the clock
InboundKinds ==
    {"crafted", "honest", "bad_index", "bad_parent", "bad_proposer", "future", "bad_txroot"}

InboundBlock(kind, transactions) ==
    LET slot == calculate_current_slot(consensus, now)
        selected == selector_proposer(consensus.proposer_selection, slot)
        proposer == IF kind # "bad_proposer" THEN selected
                    ELSE IF selected = LocalAddress THEN OtherValidator ELSE LocalAddress
        transactions_root == IF kind = "bad_txroot" THEN keccak256(TagTxRoot, <<B256_ZERO>>)
                             ELSE calculate_transactions_root(transactions)
        replayed == execute_block_commit(state, [header |-> NoBlock.header,
                                                 transactions |-> transactions])
    IN  [header |->
            [index |-> consensus.current_block_number + (IF kind = "bad_index" THEN 2 ELSE 1),
             parent_hash |-> IF kind = "bad_parent" THEN BlockHeader_hash(NoBlock.header)
                             ELSE consensus.current_block_hash,
             slot |-> slot,
             timestamp |-> IF kind = "honest" THEN now
                           ELSE IF kind = "future" THEN now + FutureTolerance + 1
                           ELSE slot,
             proposer |-> proposer,
             transactions_root |-> transactions_root,
             state_root |-> IF kind = "honest" THEN replayed.result.state_root
                            ELSE transactions_root,
             validator_signature |-> OptionNone],
         transactions |-> transactions]

\* how the message is signed: by the proposer over the header hash, by the proposer
\* over the hash of the hex text of the header hash, by somebody else, or sent under
\* an identity that is not the header's proposer
SignatureModes == {"over_hash", "over_text", "other_signer", "other_id"}

InboundMessage(kind, transactions, mode) ==
    LET Signed(block, block_hash, proposer, other) ==
            [block |-> block,
             proposer_id |-> IF mode = "other_id" THEN other ELSE proposer,
             signature |->
                IF mode = "over_hash" THEN Signature(proposer, block_hash)
                ELSE IF mode = "over_text"
                     THEN Signature(proposer, keccak256(TagText, block_hash))
                ELSE Signature(other, block_hash)]
        Message(block) ==
            Signed(block, BlockHeader_hash(block.header), block.header.proposer,
                   IF block.header.proposer = LocalAddress THEN OtherValidator
                   ELSE LocalAddress)
    IN  Message(InboundBlock(kind, transactions))

Inbound ==
    { InboundMessage("crafted", txs, mode) : txs \in NodeTxLists, mode \in SignatureModes }
        \cup { InboundMessage(kind, <<Tx1>>, mode) :
                 kind \in InboundKinds, mode \in {"over_hash", "over_text"} }

\* ValidatorRole
NodeRoles == {"Proposer", "Attestor"}

Here == Snapshot(consensus, state, mempool, store, outbound)

\* Blockchain::new and BlockchainService::new on a database and in a role
InitWith(stores, roles) ==
    /\ state = State_new
    /\ st_call = NoCall
    /\ mempool = {}
    /\ mp_call = NoMpCall
    /\ selection = NoSelection
    /\ now = StartTime
    /\ \E validator_set \in NodeValidatorSets :
          consensus = ConsensusEngine_new(SLOT_DURATION, validator_set, RandomnessSeed,
                                          LocalAddress, StartTime)
    /\ consensus_lock = "free"
    /\ store \in stores
    /\ service \in [role : roles, status : {"running"}, from_network : {"open"},
                     to_network : {"open"}]
    /\ outbound = <<>>
    /\ call = NoNodeCall

\* the service plays no part in Spec
InitNode == InitWith(NodeStores, {"Attestor"})

\* in SpecService the database is created empty
InitService == InitWith({Storage_new}, NodeRoles)

\* a slot passes
AdvanceClock ==
    /\ calculate_current_slot(consensus, now) < MaxNodeSlot
    /\ now' = now + SLOT_DURATION
    /\ call' = NoNodeCall
    /\ UNCHANGED <<stateVars, mempoolVars, selection, consensus, consensus_lock, store,
                   service, outbound>>

\* state_manager.lock().await.fund_account(address, amount), as the tests do
FundAccount(address, amount) ==
    /\ DOMAIN state.accounts = {}
    /\ state' = fund_account(state, address, amount)
    /\ call' = NoNodeCall
    /\ UNCHANGED <<st_call, mempoolVars, selection, now, consensus, consensus_lock, store,
                   service, outbound>>

\* Blockchain::add_transaction_to_mempool
AddTransactionToMempool(tx) ==
    /\ tx \notin mempool
    /\ \E existing \in (IF find_candidates(mempool, tx) = {} THEN {NoTx}
                        ELSE find_candidates(mempool, tx)) :
          mempool' = Mempool_add_transaction(mempool, tx, existing).transactions
    /\ call' = NoNodeCall
    /\ UNCHANGED <<stateVars, mp_call, selection, now, consensus, consensus_lock, store,
                   service, outbound>>

\* Blockchain::produce_block called on the node; a call that finds the consensus lock
\* leaked waits at its first lock() and changes nothing
ProduceBlock ==
    /\ \E pending_txs \in get_pending_transactions(mempool) :
          LET Called(f, blocked) ==
                /\ consensus_lock' = IF blocked \/ f.outcome = "Deadlock" THEN "leaked"
                                     ELSE "free"
                /\ call' = [op |-> "produce_block",
                            result |-> IF blocked THEN "Blocked" ELSE f.outcome,
                            frame |-> IF blocked THEN NoFrame ELSE f,
                            committed |-> NoBlock, replayed_root |-> B256_ZERO,
                            pre |-> Here]
          IN  Called(produce_block(consensus, state, pending_txs, now),
                     consensus_lock = "leaked")
    /\ UNCHANGED <<stateVars, mempoolVars, selection, now, consensus, store, service, outbound>>

\* the block timer of BlockchainService::run fires: a Proposer calls propose_block,
\* which returns Ok(()) on every Err of produce_block and never returns when
\* produce_block does not
BlockTimerTick ==
    /\ service.status = "running"
    /\ IF service.role # "Proposer"
       THEN /\ call' = NoNodeCall
            /\ UNCHANGED <<consensus_lock, service>>
       ELSE \E pending_txs \in get_pending_transactions(mempool) :
              LET Called(f, blocked) ==
                    /\ consensus_lock' = IF blocked \/ f.outcome = "Deadlock" THEN "leaked"
                                         ELSE "free"
                    /\ service' = [service EXCEPT !.status =
                                      IF blocked \/ f.outcome = "Deadlock" THEN "blocked"
                                      ELSE @]
                    /\ call' = [op |-> "propose_block",
                                result |-> IF blocked THEN "Blocked" ELSE f.outcome,
                                frame |-> IF blocked THEN NoFrame ELSE f,
                                committed |-> NoBlock, replayed_root |-> B256_ZERO,
                                pre |-> Here]
              IN  Called(produce_block(consensus, state, pending_txs, now),
                         consensus_lock = "leaked")
    /\ UNCHANGED <<stateVars, mempoolVars, selection, now, consensus, store, outbound>>

\* Blockchain::process_received_block called on the node; validate_block is its first
\* use of the consensus lock
\* `limit` is the height the model stops accepting blocks at
ProcessReceivedBlockBelow(msg, limit) ==
    /\ consensus.current_block_number < limit
    /\ LET Called(r, blocked) ==
             /\ consensus' = IF blocked THEN consensus ELSE r.node.consensus
             /\ state' = IF blocked THEN state ELSE r.node.state
             /\ store' = IF blocked THEN store ELSE r.node.store
             /\ call' = [op |-> "process_received_block",
                         result |-> IF blocked THEN "Blocked"
                                    ELSE IF r.node.panicked THEN "Panicked" ELSE r.kind,
                         frame |-> NoFrame,
                         committed |->
                            IF ~blocked /\ r.kind = "Accepted" /\ ~r.node.panicked
                            THEN msg.block ELSE NoBlock,
                         replayed_root |->
                            IF ~blocked /\ r.kind = "Accepted" /\ ~r.node.panicked
                            THEN get_state_root(r.node.state) ELSE B256_ZERO,
                         pre |-> Here]
       IN  Called(process_received_block(consensus, state, store, msg.block,
                                         msg.proposer_id, msg.signature, now),
                  /\ consensus_lock = "leaked"
                  /\ verify_proposer_signature(msg.block, msg.proposer_id, msg.signature))
    /\ UNCHANGED <<st_call, mempoolVars, selection, now, consensus_lock, service, outbound>>

ProcessReceivedBlock(msg) == ProcessReceivedBlockBelow(msg, MaxHeight)

\* BlockchainService::handle_received_block for an inbound NetworkMessage::NewBlock:
\* `outcome` is "Dropped" (early signature check), "Blocked" (waiting for the consensus
\* lock), "Panicked" (the service task unwound) or "Replied"; the send of the reply on
\* a closed channel is an Err that run() returns ("failed")
HandleReceivedBlock(msg) ==
    /\ service.status = "running"
    /\ Len(outbound) < MaxOutbound
    /\ consensus.current_block_number < MaxHeight
    /\ LET Handled(r, outcome) ==
             /\ consensus' = IF outcome \in {"Replied", "Panicked"} THEN r.node.consensus
                             ELSE consensus
             /\ state' = IF outcome \in {"Replied", "Panicked"} THEN r.node.state ELSE state
             /\ store' = IF outcome \in {"Replied", "Panicked"} THEN r.node.store ELSE store
             /\ service' = [service EXCEPT !.status =
                               IF outcome = "Blocked" THEN "blocked"
                               ELSE IF outcome = "Panicked" THEN "panicked"
                               ELSE IF /\ outcome = "Replied" /\ service.role = "Attestor"
                                       /\ service.to_network = "closed"
                                    THEN "failed"
                               ELSE @]
             /\ outbound' =
                   IF /\ outcome = "Replied" /\ service.role = "Attestor"
                      /\ service.to_network = "open"
                   THEN create_and_send_attestation(
                            outbound, LocalAddress, LocalAddress, r.block_hash,
                            IF r.kind = "Accepted" THEN AttestationVote_Accept
                            ELSE AttestationVote_Reject(r.reason))
                   ELSE outbound
             /\ call' = [op |-> "handle_received_block",
                         result |-> IF outcome = "Replied" THEN r.kind ELSE outcome,
                         frame |-> NoFrame,
                         committed |-> IF outcome = "Replied" /\ r.kind = "Accepted"
                                       THEN msg.block ELSE NoBlock,
                         replayed_root |-> IF outcome = "Replied" /\ r.kind = "Accepted"
                                           THEN get_state_root(r.node.state) ELSE B256_ZERO,
                         pre |-> Here]
           Outcome(dropped, needs_lock, panicked) ==
             IF dropped THEN "Dropped"
             ELSE IF needs_lock /\ consensus_lock = "leaked" THEN "Blocked"
             ELSE IF panicked THEN "Panicked"
             ELSE "Replied"
           Received(r) ==
             Handled(r, Outcome(~verify_block_signature(BlockHeader_hash(msg.block.header),
                                                        msg.proposer_id, msg.signature),
                                verify_proposer_signature(msg.block, msg.proposer_id,
                                                          msg.signature),
                                r.node.panicked))
       IN  Received(process_received_block(consensus, state, store, msg.block,
                                           msg.proposer_id, msg.signature, now))
    /\ UNCHANGED <<st_call, mempoolVars, selection, now, consensus_lock>>

\* the network adapter takes the oldest message off the outbound channel
NetworkReceives ==
    /\ outbound # <<>>
    /\ outbound' = Tail(outbound)
    /\ call' = NoNodeCall
    /\ UNCHANGED <<stateVars, mempoolVars, selection, now, consensus, consensus_lock, store,
                   service>>

\* the Blockchain driven through its public operations
NextNode ==
    \/ AdvanceClock
    \/ FundAccount(LocalAddress, 400)
    \/ \E tx \in NodeTxs : AddTransactionToMempool(tx)
    \/ ProduceBlock
    \/ \E msg \in Inbound : ProcessReceivedBlock(msg)

Spec == InitNode /\ [][NextNode]_vars

\* the Blockchain driven by the BlockchainService loop
NextService ==
    \/ AdvanceClock
    \/ FundAccount(LocalAddress, 400)
    \/ \E tx \in NodeTxs : AddTransactionToMempool(tx)
    \/ BlockTimerTick
    \/ \E msg \in Inbound : HandleReceivedBlock(msg)
    \/ NetworkReceives

SpecService == InitService /\ [][NextService]_vars

-----------------------------------------------------------------------------
(* Specification SpecBlock: a proposer that builds its blocks by the calls  *)
(* produce_block makes once it holds the consensus lock (create_block,      *)
(* execute_block_commit, finalize_block, store_block, update_best_block),   *)
(* from transactions that simulate_execute_block admits.                    *)

\* the block-building calls of produce_block, in their order
build_block(ce, s, db, transactions, time) ==
    LET Finalized(finalized_block, e) ==
            [block |-> finalized_block, panicked |-> e.panicked, state |-> e.state,
             store |-> Storage_store_block(db, finalized_block),
             consensus |-> update_best_block(ce, finalized_block)]
        Executed(block, e) == Finalized(finalize_block(ce, block, e.result), e)
        Created(c) == Executed(c.block, execute_block_commit(s, c.block))
    IN  Created(create_block(ce, transactions, time))

\* `limit` is the height the model stops building blocks at
BuildBlockBelow(transactions, limit) ==
    /\ consensus.current_block_number < limit
    /\ should_produce_block(consensus, now) = "true"
    /\ transactions # <<>>
    /\ simulate_execute_block(state, transactions) = transactions
    /\ LET Built(b) ==
             /\ ~b.panicked
             /\ consensus' = b.consensus
             /\ state' = b.state
             /\ store' = b.store
             /\ call' = [op |-> "build_block", result |-> "Ok", frame |-> NoFrame,
                         committed |-> b.block, replayed_root |-> get_state_root(b.state),
                         pre |-> Here]
       IN  Built(build_block(consensus, state, store, transactions, now))
    /\ UNCHANGED <<st_call, mempoolVars, selection, now, consensus_lock, service, outbound>>

BuildBlock(transactions) == BuildBlockBelow(transactions, MaxHeight)

NextBlock ==
    \/ AdvanceClock
    \/ FundAccount(LocalAddress, 400)
    \/ \E tx \in NodeTxs : AddTransactionToMempool(tx)
    \/ \E transactions \in NodeTxLists : BuildBlock(transactions)

SpecBlock == InitService /\ [][NextBlock]_vars

-----------------------------------------------------------------------------
(* C4: a block an honest proposer built by create_block,                    *)
(* execute_block_commit and finalize_block is accepted by a peer that is in *)
(* the proposer's pre-block state: ConsensusEngine::validate_block returns  *)
(* true and simulate_execute_block admits all of its transactions.          *)
C4_HonestBlockAcceptedByPeer ==
    call.op = "build_block" =>
        /\ ConsensusEngine_validate_block(call.pre.consensus, call.committed, now) = "true"
        /\ simulate_execute_block(call.pre.state, call.committed.transactions)
              = call.committed.transactions

-----------------------------------------------------------------------------
(* C5: the transactions produce_block builds its block from are exactly the *)
(* ones simulate_execute_block admitted from the pending set, never a       *)
(* pending transaction that the simulation filtered out.                    *)
C5_BlockHoldsAdmittedOnly ==
    (call.op = "produce_block" /\ call.frame.valid_transactions # <<>>) =>
        create_block_argument(call.frame) = call.frame.valid_transactions

-----------------------------------------------------------------------------
(* C6: when the local key is the only active validator and the mempool      *)
(* holds a correctly signed transaction of a funded sender with the         *)
(* sender's current nonce, produce_block returns Ok with a block of index   *)
(* current_block_number + 1, also right after construction.                 *)
C6_SoleValidatorProduces ==
    (/\ call.op = "produce_block"
     /\ call.pre.consensus.local_keypair = LocalAddress
     /\ DOMAIN call.pre.consensus.proposer_selection.validator_set.validators = {LocalAddress}
     /\ is_active_validator(call.pre.consensus.proposer_selection.validator_set, LocalAddress)
     /\ \E tx \in call.pre.mempool :
           /\ is_signature_valid(tx)
           /\ get_balance(call.pre.state, tx.from) >= max_transaction_cost(tx)
           /\ tx.nonce = get_nonce(call.pre.state, tx.from))
        => /\ call.result = "Ok"
           /\ call.committed.header.index = call.pre.consensus.current_block_number + 1

-----------------------------------------------------------------------------
(* C7: a propose_block that finds a block to produce (the local key is the  *)
(* slot's proposer and the simulation admitted transactions) ends with that *)
(* block emitted once as NewBlock on the outbound channel and with the      *)
(* service loop running.                                                    *)
C7_ProposedBlockEmittedOnce ==
    (call.op = "propose_block" /\ call.frame.valid_transactions # <<>>) =>
        /\ service.status = "running"
        /\ Len(outbound) = Len(call.pre.outbound) + 1
        /\ outbound[Len(outbound)].type = "NewBlock"

-----------------------------------------------------------------------------
(* C8: an Attestor answers every inbound NewBlock with exactly one          *)
(* Attestation, Accept exactly when the block was committed and Reject      *)
(* otherwise; a Proposer sends none.                                        *)
C8_OneAttestationPerBlock ==
    call.op = "handle_received_block" =>
        IF service.role = "Attestor"
        THEN /\ Len(outbound) = Len(call.pre.outbound) + 1
             /\ outbound[Len(outbound)].type = "Attestation"
             /\ (outbound[Len(outbound)].vote.kind = "Accept") <=> (call.committed # NoBlock)
        ELSE outbound = call.pre.outbound

-----------------------------------------------------------------------------
(* C9: a block that is committed carries in header.state_root the state     *)
(* root that executing its transactions on the pre-block state yields; a    *)
(* received block with another state_root is not committed.                 *)
C9_CommittedStateRootIsReplayedRoot ==
    call.committed # NoBlock => call.committed.header.state_root = call.replayed_root

-----------------------------------------------------------------------------
(* C10: every store_block writes the height last_index + 1, and no          *)
(* height -> hash entry that the database held is replaced by another hash. *)
C10_AppendOnly ==
    call.committed # NoBlock =>
        /\ call.committed.header.index = Blockchain_get_last_index(call.pre.store) + 1
        /\ \A index \in DOMAIN call.pre.store.hash_by_index :
              store.hash_by_index[index] = call.pre.store.hash_by_index[index]

-----------------------------------------------------------------------------
(* Specification SpecStore: a node that accepts blocks from its peers, with *)
(* the three database writes of Storage::store_block taken one at a time,   *)
(* and that can be stopped at any point of them and started again on the    *)
(* database it left.                                                        *)

\* the blocks the peers send: valid on the node's tip, signed by their proposer
StoreInbound == { InboundMessage("crafted", txs, "over_hash") : txs \in {<<>>, <<Tx1>>} }

\* process_received_block accepts the block; commit_validated_block executes it and
\* store_block makes its first write, the block body
StoreBlockBody(msg) ==
    /\ call.result \in {"", "stored", "stopped"}
    /\ consensus.current_block_number < MaxHeight
    /\ LET Accepted(r) ==
             /\ r.kind = "Accepted"
             /\ ~r.node.panicked
             /\ state' = r.node.state
             /\ store' = put_block_hash_to_block(store, BlockHeader_hash(msg.block.header),
                                                 msg.block)
             /\ call' = [op |-> "store_block", result |-> "body written", frame |-> NoFrame,
                         committed |-> msg.block,
                         replayed_root |-> get_state_root(r.node.state), pre |-> Here]
       IN  Accepted(process_received_block(consensus, state, store, msg.block,
                                           msg.proposer_id, msg.signature, now))
    /\ UNCHANGED <<st_call, mempoolVars, selection, now, consensus, consensus_lock, service,
                   outbound>>

\* the second write of store_block: height -> hash
StoreBlockIndex ==
    /\ call.op = "store_block"
    /\ call.result = "body written"
    /\ store' = put_index_to_block_hash(store, call.committed.header.index,
                                        BlockHeader_hash(call.committed.header))
    /\ call' = [call EXCEPT !.result = "index written"]
    /\ UNCHANGED <<stateVars, mempoolVars, selection, now, consensus, consensus_lock, service,
                   outbound>>

\* the third write of store_block, last_index, and then update_best_block
StoreBlockLastIndex ==
    /\ call.op = "store_block"
    /\ call.result = "index written"
    /\ store' = put_last_index(store, call.committed.header.index)
    /\ consensus' = update_best_block(consensus, call.committed)
    /\ call' = [call EXCEPT !.result = "stored"]
    /\ UNCHANGED <<stateVars, mempoolVars, selection, now, consensus_lock, service, outbound>>

\* the node stops during or after a store_block and is started again: Storage::new
\* opens the database as it was left, everything else is constructed anew
StopAndRestart ==
    /\ call.op = "store_block"
    /\ call.result # "stopped"
    /\ consensus' = ConsensusEngine_new(SLOT_DURATION,
                                        consensus.proposer_selection.validator_set,
                                        RandomnessSeed, LocalAddress, now)
    /\ state' = State_new
    /\ mempool' = {}
    /\ call' = [call EXCEPT !.result = "stopped"]
    /\ UNCHANGED <<st_call, mp_call, selection, now, consensus_lock, store, service, outbound>>

NextStore ==
    \/ FundAccount(LocalAddress, 400)
    \/ \E msg \in StoreInbound : StoreBlockBody(msg)
    \/ StoreBlockIndex
    \/ StoreBlockLastIndex
    \/ StopAndRestart

SpecStore == InitWith({Storage_new}, {"Attestor"}) /\ [][NextStore]_vars

-----------------------------------------------------------------------------
(* C11: wherever the node stops during a store_block, the database holds    *)
(* last_index N or N + 1, N being last_index before the call, and holds the *)
(* height -> hash entry and the block body of the last_index it publishes.  *)
C11_StopLeavesChainAtNOrNPlus1 ==
    call.op = "store_block" =>
        /\ Blockchain_get_last_index(store)
              \in {Blockchain_get_last_index(call.pre.store),
                   Blockchain_get_last_index(call.pre.store) + 1}
        /\ get_last_index(store) # None =>
              /\ get_last_index(store) \in DOMAIN store.hash_by_index
              /\ store.hash_by_index[get_last_index(store)] \in DOMAIN store.block_by_hash

-----------------------------------------------------------------------------
(* Specification SpecTransfer: transfers of one account applied one after   *)
(* the other by apply_transaction, the call recorded with its configuration *)
(* and with the transactions that were applied successfully before.         *)

\* the transfers of account 1: to a funded and to an absent account, of nothing, and at a
\* price of half the U256 range, at which the fee of an even amount of gas wraps to 0
TrTxs ==
    { SignedTx(1, x[1], x[2], x[3], x[4], 0, n, 1) :
        x \in {<<2, 100, 50, 2>>, <<3, 100, 50, 2>>, <<2, 0, 50, 2>>,
               <<2, 100, 50, U256Modulus \div 2>>, <<3, 100, 50, U256Modulus \div 2>>},
        n \in {0, 1} }

\* the sum of the balances of the accounts a state holds
RECURSIVE SumBalances(_, _)
SumBalances(s, addresses) ==
    IF addresses = {} THEN 0
    ELSE LET a == CHOOSE x \in addresses : TRUE
         IN  s.accounts[a].balance + SumBalances(s, addresses \ {a})

Transfer(tx, config) ==
    /\ get_nonce(state, tx.from) < MaxNonce
    /\ LET Applied(r) ==
             /\ state' = r.state
             /\ st_call' = [pre |-> state, tx |-> tx, config |-> config, result |-> r.result,
                            applied |-> IF r.result.kind = "Ok" THEN st_call.applied \cup {tx}
                                        ELSE st_call.applied]
       IN  Applied(apply_transaction(state, tx, config))
    /\ UNCHANGED <<mempoolVars, selection, nodeVars>>

InitTransfer ==
    /\ state \in StStates
    /\ st_call = [pre |-> State_new, tx |-> NoTx, config |-> GasConfig_default,
                  result |-> NoCall.result, applied |-> {}]
    /\ mempool = {}
    /\ mp_call = NoMpCall
    /\ selection = NoSelection
    /\ NodeIdle

NextTransfer == \E tx \in TrTxs, config \in StConfigs : Transfer(tx, config)

SpecTransfer == InitTransfer /\ [][NextTransfer]_vars

-----------------------------------------------------------------------------
(* C12: after a successful apply_transaction the balances of all accounts   *)
(* sum to what they summed to before, less gas_used * gas_price.            *)
C12_FeeIsBurned ==
    st_call.result.kind = "Ok" =>
        SumBalances(state, DOMAIN state.accounts)
            = SumBalances(st_call.pre, DOMAIN st_call.pre.accounts)
                - st_call.result.gas_used * st_call.tx.gas_price

-----------------------------------------------------------------------------
(* C13: a successful apply_transaction returns the intrinsic gas of the     *)
(* configuration as gas_used, adds 1 to the sender's nonce, takes           *)
(* amount + gas_used * gas_price from the sender's balance, adds amount to  *)
(* the recipient's balance and leaves every other account as it was.        *)
C13_SuccessEffects ==
    st_call.result.kind = "Ok" =>
        /\ st_call.result.gas_used = calculate_instrinsic_gas(st_call.config)
        /\ get_nonce(state, st_call.tx.from) = get_nonce(st_call.pre, st_call.tx.from) + 1
        /\ get_balance(state, st_call.tx.from)
              = get_balance(st_call.pre, st_call.tx.from)
                  - (st_call.tx.amount + st_call.result.gas_used * st_call.tx.gas_price)
        /\ get_balance(state, st_call.tx.to)
              = get_balance(st_call.pre, st_call.tx.to) + st_call.tx.amount
        /\ get_nonce(state, st_call.tx.to) = get_nonce(st_call.pre, st_call.tx.to)
        /\ \A a \in Addresses \ {st_call.tx.from, st_call.tx.to} :
              get_account(state, a) = get_account(st_call.pre, a)

-----------------------------------------------------------------------------
(* C14: a transaction that was applied successfully fails when it is        *)
(* applied again in any later state, under any configuration; the error is  *)
(* InvalidNonce{expected: the sender's nonce, got: tx.nonce} when the gas   *)
(* checks pass and the sender can afford its reserved cost; the sender's    *)
(* nonce stays above the nonce of every transaction applied.                *)
C14_AppliedTransactionNeverAppliesAgain ==
    \A tx \in st_call.applied, config \in StConfigs :
        LET r == apply_transaction(state, tx, config).result
        IN  /\ tx.nonce < get_nonce(state, tx.from)
            /\ r.kind = "Err"
            /\ (/\ validate_gas_price(tx.gas_price, config)
                /\ validate_gas_limit(tx.gas_limit, config)
                /\ tx.gas_limit >= calculate_instrinsic_gas(config)
                /\ get_balance(state, tx.from) >= max_transaction_cost(tx))
                  => r.error = [name |-> "InvalidNonce", a |-> get_nonce(state, tx.from),
                                b |-> tx.nonce]

\* a transaction applied earlier, another one applied after it, and the sender still
\* able to afford the first
C14_Witness ==
    /\ st_call.result.kind = "Ok"
    /\ \E tx \in st_call.applied :
          /\ tx # st_call.tx
          /\ get_balance(state, tx.from) >= max_transaction_cost(tx)
          /\ apply_transaction(state, tx, GasConfig_default).result.error.name = "InvalidNonce"

-----------------------------------------------------------------------------
(* C18: the block finalize_block returns has the execution result's state   *)
(* root as header.state_root and, when the local key is header.proposer,    *)
(* carries in header.validator_signature a signature over header.hash()     *)
(* that recovers to the proposer; with another local key it carries none.   *)
C18_FinalizedBlockIsSigned ==
    call.op = "build_block" =>
        /\ call.committed.header.state_root = call.replayed_root
        /\ IF call.pre.consensus.local_keypair = call.committed.header.proposer
           THEN /\ call.committed.header.validator_signature # OptionNone
                /\ recover_address_from_prehash(call.committed.header.validator_signature[1],
                                                BlockHeader_hash(call.committed.header))
                      = call.committed.header.proposer
           ELSE call.committed.header.validator_signature = OptionNone

-----------------------------------------------------------------------------
(* C19: of the NewBlock messages a peer can send the node, one signed by    *)
(* the block's proposer over block.header.hash() and sent under the         *)
(* proposer's identity passes verify_block_signature and                    *)
(* verify_proposer_signature; one signed over that hash by another key, or  *)
(* sent under an identity that is not header.proposer, fails one of them.   *)
C19_ProposerSignaturePassesReceivePath ==
    \A msg \in Inbound :
        LET block_hash == BlockHeader_hash(msg.block.header)
            proposer == msg.block.header.proposer
            passes == /\ verify_block_signature(block_hash, msg.proposer_id, msg.signature)
                      /\ verify_proposer_signature(msg.block, msg.proposer_id, msg.signature)
        IN  /\ (msg.proposer_id = proposer /\ msg.signature = Signature(proposer, block_hash))
                  => passes
            /\ (\/ msg.proposer_id # proposer
                \/ msg.signature[2] = block_hash /\ msg.signature[1] # proposer)
                  => ~passes

-----------------------------------------------------------------------------
(* Specification SpecValidate: ConsensusEngine::validate_block called on    *)
(* the blocks peers send, on a node whose validator list may also have held *)
(* no entry of sufficient stake, as its chain grows and its clock advances. *)

\* Blockchain::new drops the Err of add_validator: a list that is empty, or whose stakes
\* are below min_stake, leaves the validator set empty
InitValidate ==
    /\ state = State_new
    /\ st_call = NoCall
    /\ mempool = {}
    /\ mp_call = NoMpCall
    /\ selection = NoSelection
    /\ now = StartTime
    /\ \E validator_set \in NodeValidatorSets
              \cup {add_validator(ValidatorSet_new(MIN_STAKE), LocalAddress, MIN_STAKE - 1,
                                  <<LocalAddress>>)} :
          consensus = ConsensusEngine_new(SLOT_DURATION, validator_set, RandomnessSeed,
                                          LocalAddress, StartTime)
    /\ consensus_lock = "free"
    /\ store = Storage_new
    /\ service = [role |-> "Attestor", status |-> "running", from_network |-> "open",
                  to_network |-> "open"]
    /\ outbound = <<>>
    /\ call = NoNodeCall

ValidateBlock(msg) ==
    /\ call' = [op |-> "validate_block",
                result |-> ConsensusEngine_validate_block(consensus, msg.block, now),
                frame |-> NoFrame, committed |-> msg.block, replayed_root |-> B256_ZERO,
                pre |-> Here]
    /\ UNCHANGED <<stateVars, mempoolVars, selection, now, consensus, consensus_lock, store,
                   service, outbound>>

NextValidate ==
    \/ AdvanceClock
    \/ \E msg \in Inbound : ValidateBlock(msg)
    \/ \E msg \in Inbound : ProcessReceivedBlock(msg)

SpecValidate == InitValidate /\ [][NextValidate]_vars

-----------------------------------------------------------------------------
(* C20: ConsensusEngine::validate_block returns true only if the block's    *)
(* index is the tip's plus 1, its parent_hash is the tip's hash, its        *)
(* proposer is the one selected for its slot, its timestamp is at most 30   *)
(* seconds ahead of the clock and its transactions_root is the root of its  *)
(* transactions; when one of these fails it returns false.                  *)
C20_ValidateBlockChecks ==
    call.op = "validate_block" =>
        LET ce == call.pre.consensus
            block == call.committed
            expected_proposer == selector_proposer(ce.proposer_selection, block.header.slot)
            all_hold ==
                /\ block.header.index = ce.current_block_number + 1
                /\ block.header.parent_hash = ce.current_block_hash
                /\ expected_proposer # None /\ block.header.proposer = expected_proposer
                /\ block.header.timestamp <= now + FutureTolerance
                /\ calculate_transactions_root(block.transactions)
                      = block.header.transactions_root
        IN  /\ call.result = "true" => all_hold
            /\ ~all_hold => call.result = "false"

-----------------------------------------------------------------------------
(* C21: when process_received_block rejects a block, the accounts and the   *)
(* state root, the database, the consensus tip (block number, block hash,   *)
(* slot) and the mempool are those of before the call.                      *)
C21_RejectionChangesNothing ==
    (call.op = "process_received_block" /\ call.result = "Rejected") =>
        /\ state = call.pre.state
        /\ store = call.pre.store
        /\ consensus.current_block_number = call.pre.consensus.current_block_number
        /\ consensus.current_block_hash = call.pre.consensus.current_block_hash
        /\ consensus.current_slot = call.pre.consensus.current_slot
        /\ mempool = call.pre.mempool

\* a block was rejected by a node that holds accounts, pending transactions and a
\* stored block, although its signature and its header were in order: the simulation
\* admitted fewer transactions than it carries
C21_Witness ==
    /\ call.op = "process_received_block" /\ call.result = "Rejected"
    /\ DOMAIN state.accounts # {}
    /\ mempool # {}
    /\ store.last_index # None
    /\ \E msg \in Inbound :
          /\ verify_proposer_signature(msg.block, msg.proposer_id, msg.signature)
          /\ ConsensusEngine_validate_block(consensus, msg.block, now) = "true"
          /\ ~validate_execution(state, msg.block)

-----------------------------------------------------------------------------
-----------------------------------------------------------------------------
(* C23: after store_block(b) the hash read for b's height is b's header     *)
(* hash, the block read for that hash is b, and the last index read is b's  *)
(* height; a height or a hash that was never written reads as absent.       *)
C23_StorageRoundTrip ==
    call.committed # NoBlock =>
        /\ get_block_hash_from_index(store, call.committed.header.index)
              = Some(BlockHeader_hash(call.committed.header))
        /\ get_block_from_block_hash(store, BlockHeader_hash(call.committed.header))
              = Some(call.committed)
        /\ get_last_index(store) = call.committed.header.index
        /\ \A index \in 0 .. MaxHeight + 1 :
              (\A h \in DOMAIN store.block_by_hash :
                  serde_json_from_slice(store.block_by_hash[h]).header.index # index)
                 => get_block_hash_from_index(store, index) = OptionNone
        /\ get_block_from_block_hash(store, BlockHeader_hash(NoBlock.header)) = OptionNone

\* a block that carries transactions was stored on top of an earlier one
C23_Witness ==
    /\ call.committed # NoBlock
    /\ call.committed.transactions # <<>>
    /\ call.committed.header.index = 2

-----------------------------------------------------------------------------
(* C24: after every mutation the cached state root is the digest of the     *)
(* live accounts in ascending address order, all-zero for the empty state;  *)
(* no account with zero balance and zero nonce is in the map; and a state   *)
(* built by inserting the same accounts in any other order has the same     *)
(* accounts and the same root.                                              *)
C24_StateRootOfLiveAccounts ==
    LET RECURSIVE Inserted(_, _)
        Inserted(s, order) ==
            IF order = <<>> THEN s
            ELSE Inserted(set_account(s, Head(order), state.accounts[Head(order)]),
                          Tail(order))
    IN  /\ state.state_root = calculate_state_root(state.accounts)
        /\ DOMAIN state.accounts = {} => state.state_root = B256_ZERO
        /\ \A a \in DOMAIN state.accounts :
              state.accounts[a].balance # 0 \/ state.accounts[a].nonce # 0
        /\ \A order \in Orders(DOMAIN state.accounts) : Inserted(State_new, order) = state

\* a transfer of nothing to an account that is absent was applied, leaving two live
\* accounts and the recipient absent
C24_Witness ==
    /\ st_call.result.kind = "Ok"
    /\ st_call.tx.amount = 0
    /\ st_call.tx.to \notin DOMAIN state.accounts
    /\ Cardinality(DOMAIN state.accounts) = 2

-----------------------------------------------------------------------------
(* Specification SpecSlots: a proposer that builds its blocks as in         *)
(* SpecBlock and between them accepts the blocks of the other validator,    *)
(* which name any slot up to the clock's; the chain grows one block higher  *)
(* than in the other specifications.                                        *)

\* the blocks the other validator proposes on the node's tip for a slot it is selected
\* for, signed by it over the header hash
SlotInbound ==
    { [block |-> block, proposer_id |-> OtherValidator,
       signature |-> Signature(OtherValidator, BlockHeader_hash(block.header))] :
        block \in { [EarlierBlock(slot, OtherValidator) EXCEPT
                       !.header.index = consensus.current_block_number + 1,
                       !.header.parent_hash = consensus.current_block_hash] :
                    slot \in { x \in 0 .. calculate_current_slot(consensus, now) :
                                 selector_proposer(consensus.proposer_selection, x)
                                    = OtherValidator } } }

NextSlots ==
    \/ AdvanceClock
    \/ FundAccount(LocalAddress, 400)
    \/ \E transactions \in {<<Tx1>>, <<Tx2>>} : BuildBlockBelow(transactions, MaxHeight + 1)
    \/ \E msg \in SlotInbound : ProcessReceivedBlockBelow(msg, MaxHeight + 1)

SpecSlots == InitService /\ [][NextSlots]_vars

-----------------------------------------------------------------------------
-----------------------------------------------------------------------------
(* Specification SpecChannels: the BlockchainService loop while the other   *)
(* ends of its two channels may be dropped.                                 *)

\* the NetworkService ended: the sender of from_network or the receiver of to_network
\* is dropped
ChannelClosed(channel) ==
    /\ service[channel] = "open"
    /\ service' = [service EXCEPT ![channel] = "closed"]
    /\ call' = NoNodeCall
    /\ UNCHANGED <<stateVars, mempoolVars, selection, now, consensus, consensus_lock, store,
                   outbound>>

\* recv() on the closed channel yields None, which disables that branch of select!
NextChannels ==
    \/ AdvanceClock
    \/ \E channel \in {"from_network", "to_network"} : ChannelClosed(channel)
    \/ BlockTimerTick
    \/ service.from_network = "open" /\ \E msg \in Inbound : HandleReceivedBlock(msg)

SpecChannels == InitService /\ [][NextChannels]_vars

-----------------------------------------------------------------------------
(* C26: the run loop of BlockchainService has ended with an error after a   *)
(* turn it took with its inbound channel closed, and after a reply it could *)
(* not send because the outbound channel was closed.                        *)
C26_ChannelClosureEndsService ==
    /\ (service.from_network = "closed" /\ call.op = "propose_block")
          => service.status = "failed"
    /\ (/\ service.to_network = "closed" /\ service.role = "Attestor"
        /\ call.op = "handle_received_block" /\ call.result \in {"Accepted", "Rejected"})
          => service.status = "failed"

-----------------------------------------------------------------------------
(* C27: for the engine of the node with any local key or none,              *)
(* should_produce_block returns true exactly when the slot of the clock,    *)
(* (now - genesis_time) div slot_duration, is greater than current_slot and *)
(* the local key is the proposer selected for that slot; without a local    *)
(* key it returns false.                                                    *)
C27_ShouldProduceBlock ==
    \A key \in {None, LocalAddress, OtherValidator} :
        LET ce == [consensus EXCEPT !.local_keypair = key]
            slot == (now - consensus.genesis_time) \div consensus.slot_duration
            selected == selector_proposer(consensus.proposer_selection, slot)
            returned == should_produce_block(ce, now)
        IN  /\ returned = "true"
                  <=> (slot > consensus.current_slot /\ selected # None /\ key = selected)
            /\ key = None => returned = "false"


-----------------------------------------------------------------------------
(* Specification SpecExecute: the execution engine alone. Blocks of up to   *)
(* two transactions are simulated and committed on the states of            *)
(* SpecTransfer, with transactions waiting in the mempool.                  *)

ExecuteBlockCommit(transactions) ==
    /\ get_nonce(state, 1) + Len(transactions) <= MaxNonce
    /\ LET Executed(r) ==
             /\ state' = r.state
             /\ call' = [op |-> "execute_block_commit", transactions |-> transactions,
                         panicked |-> r.panicked, result |-> r.result, pre |-> Here]
       IN  Executed(execute_block_commit(state, [header |-> NoBlock.header,
                                                 transactions |-> transactions]))
    /\ UNCHANGED <<st_call, mempoolVars, selection, now, consensus, consensus_lock, store,
                   service, outbound>>

\* a slip: the temporary balances and nonces are written to the state
SimulateExecuteBlock_writing_back(transactions) ==
    /\ state' = execute_block_commit(state,
                    [header |-> NoBlock.header,
                     transactions |-> simulate_execute_block(state, transactions)]).state
    /\ call' = [op |-> "simulate_execute_block", transactions |-> transactions,
                result |-> simulate_execute_block(state, transactions), pre |-> Here]
    /\ UNCHANGED <<st_call, mempoolVars, selection, now, consensus, consensus_lock, store,
                   service, outbound>>

SimulateExecuteBlock(transactions) ==
    /\ call' = [op |-> "simulate_execute_block", transactions |-> transactions,
                result |-> simulate_execute_block(state, transactions), pre |-> Here]
    /\ UNCHANGED <<stateVars, mempoolVars, selection, now, consensus, consensus_lock, store,
                   service, outbound>>

\* the blocks: the transfers of SpecTransfer, one whose gas_limit * gas_price wraps
\* to less than its fee and one whose gas_limit lies between the floor of simulation
\* and the intrinsic gas, alone or in pairs
NextExecute ==
    LET txs == TrTxs \cup { SignedTx(1, 2, 0, 100, 11, 0, n, 1) : n \in {0, 1} }
                     \cup { SignedTx(1, 2, 100, 30, 2, 0, 0, 1) }
        blocks == {<<>>} \cup { <<a>> : a \in txs } \cup { <<a, b>> : a, b \in txs }
    IN  \/ \E tx \in {Tx1, Tx2} : AddTransactionToMempool(tx)
        \/ \E transactions \in blocks : ExecuteBlockCommit(transactions)
        \/ \E transactions \in blocks : SimulateExecuteBlock(transactions)

SpecExecute == InitTransfer /\ [][NextExecute]_vars

(* C29: execute_block_commit applies the block's transactions in block      *)
(* order and returns one receipt per transaction in that order: a success   *)
(* receipt with the gas apply_transaction returned, or a failure receipt    *)
(* with the error and gas_used = gas_limit, the failed transaction leaving  *)
(* the accounts as they were; total_gas_used is the sum of the receipts'    *)
(* gas_used and state_root is the root after the last transaction.          *)
C29_OneReceiptPerTransaction ==
    call.op = "execute_block_commit" =>
        LET transactions == call.transactions
            RECURSIVE StateBefore(_)
            StateBefore(i) ==
                IF i = 1 THEN call.pre.state
                ELSE apply_transaction(StateBefore(i - 1), transactions[i - 1],
                                       GasConfig_default).state
            Outcome(i) == apply_transaction(StateBefore(i), transactions[i], GasConfig_default)
            RECURSIVE GasOf(_)
            GasOf(receipts) ==
                IF receipts = <<>> THEN 0 ELSE Head(receipts).gas_used + GasOf(Tail(receipts))
        IN  /\ ~call.panicked
            /\ Len(call.result.receipts) = Len(transactions)
            /\ \A i \in 1 .. Len(transactions) :
                  /\ Outcome(i).result.kind = "Ok" =>
                        call.result.receipts[i] =
                            Receipt_success(transactions[i].hash, Outcome(i).result.gas_used)
                  /\ Outcome(i).result.kind = "Err" =>
                        /\ call.result.receipts[i] =
                               Receipt_failed(transactions[i].hash, transactions[i].gas_limit,
                                              Outcome(i).result.error.name)
                        /\ Outcome(i).state.accounts = StateBefore(i).accounts
            /\ call.result.total_gas_used = GasOf(call.result.receipts)
            /\ call.result.state_root = get_state_root(StateBefore(Len(transactions) + 1))
            /\ state = StateBefore(Len(transactions) + 1)

(* C30: simulate_execute_block mutates nothing: the account map, the state  *)
(* root and the mempool are the same before and after the call.             *)
C30_SimulationMutatesNothing ==
    call.op = "simulate_execute_block" =>
        /\ state.accounts = call.pre.state.accounts
        /\ get_state_root(state) = get_state_root(call.pre.state)
        /\ mempool = call.pre.mempool

\* a simulation that admitted a transaction, with transactions pending
C30_Witness ==
    /\ call.op = "simulate_execute_block"
    /\ call.result # <<>>
    /\ mempool # {}
    /\ state.accounts # State_new.accounts


-----------------------------------------------------------------------------
(* The locks of the orchestrator: the Mutex around the ConsensusEngine, the  *)
(* state manager's and the mempool's inside the ExecutionEngine, and the     *)
(* one around the Storage.                                                   *)

\* The lock requests an entry point makes on the paths that end in `result`, in
\* program order, each with the locks the call holds at that moment.
lock_paths(op, result) ==
    LET Request(lock, held) == [requested |-> lock, held |-> held]
        should_produce == <<Request("consensus", {})>>
        pending == Append(should_produce, Request("mempool", {"consensus"}))
        simulated == Append(pending, Request("state", {"consensus"}))
        validated == <<Request("consensus", {}), Request("state", {})>>
    IN  IF op = "produce_block"
        THEN IF result \in {"Blocked", "Err: Proposer selection failed",
                            "Err: Not selected as proposer for current slot"}
             THEN {should_produce}
             ELSE IF result = "Err: No transactions to mine" THEN {pending}
             ELSE IF result = "Err: No valid transactions" THEN {simulated}
             ELSE {Append(simulated, Request("consensus", {"consensus"}))}
        ELSE IF op = "process_received_block"
        THEN IF result = "Accepted"
             THEN {validated \o <<Request("state", {}), Request("storage", {}),
                                  Request("consensus", {})>>}
             ELSE IF result = "Panicked" THEN {Append(validated, Request("state", {}))}
             ELSE {<<>>, <<Request("consensus", {})>>, validated}
        ELSE IF op = "add_transaction_to_mempool" THEN {<<Request("mempool", {})>>}
        ELSE {<<>>}

(* C31: every entry point of the orchestrator takes its locks in the order  *)
(* consensus, state, mempool, storage: while it holds a lock it requests    *)
(* neither a lock that is earlier in that order nor the lock it holds.      *)
C31_LockOrder ==
    LET order == <<"consensus", "state", "mempool", "storage">>
        Rank(lock) == CHOOSE i \in 1 .. 4 : order[i] = lock
        Ordered(path) ==
            \A i \in 1 .. Len(path) :
                \A held \in path[i].held : Rank(held) < Rank(path[i].requested)
    IN  /\ \A path \in lock_paths(call.op, call.result) : Ordered(path)
        /\ \A path \in lock_paths("add_transaction_to_mempool", "") : Ordered(path)


(* C32: every invocation of produce_block returns, a block or an error, and *)
(* has released every lock it took, so that BlockchainService::run goes on  *)
(* to later ticks and messages; also when the node is the slot's proposer   *)
(* and simulation admits a pending transaction.                             *)
C32_ProduceBlockReturns ==
    call.op \in {"produce_block", "propose_block"} =>
        /\ call.result \notin {"Deadlock", "Blocked"}
        /\ consensus_lock = "free"
        /\ service.status = "running"


-----------------------------------------------------------------------------
(* Specification SpecCommit: the node of SpecSlots on a database whose      *)
(* writes can fail: store_block returns the error of its first failed put,  *)
(* with the puts before it done.                                            *)

\* Storage::store_block when only its first `written` puts succeed
store_block_failing(db, block, written) ==
    LET body == IF written >= 1
                THEN put_block_hash_to_block(db, BlockHeader_hash(block.header), block)
                ELSE db
    IN  IF written >= 2
        THEN put_index_to_block_hash(body, block.header.index, BlockHeader_hash(block.header))
        ELSE body

\* commit_validated_block of a valid block: the block is executed, store_block fails
\* and its error is returned with `?` before update_best_block
StoreFailsOnReceivedBlock(msg, written) ==
    /\ consensus.current_block_number < MaxHeight
    /\ LET Accepted(r) ==
             /\ r.kind = "Accepted"
             /\ ~r.node.panicked
             /\ state' = r.node.state
             /\ store' = store_block_failing(store, msg.block, written)
             /\ call' = [op |-> "process_received_block",
                         result |-> "Err: Failed to store block", frame |-> NoFrame,
                         committed |-> msg.block,
                         replayed_root |-> get_state_root(r.node.state), pre |-> Here]
       IN  Accepted(process_received_block(consensus, state, store, msg.block,
                                           msg.proposer_id, msg.signature, now))
    /\ UNCHANGED <<st_call, mempoolVars, selection, now, consensus, consensus_lock, service,
                   outbound>>

\* the end of produce_block: the result of store_block is dropped by `let _ =` and
\* update_best_block follows
StoreFailsOnProducedBlock(transactions, written) ==
    /\ consensus.current_block_number < MaxHeight
    /\ should_produce_block(consensus, now) = "true"
    /\ transactions # <<>>
    /\ simulate_execute_block(state, transactions) = transactions
    /\ LET Built(b) ==
             /\ ~b.panicked
             /\ consensus' = b.consensus
             /\ state' = b.state
             /\ store' = store_block_failing(store, b.block, written)
             /\ call' = [op |-> "build_block", result |-> "Ok, store_block failed",
                         frame |-> NoFrame, committed |-> b.block,
                         replayed_root |-> get_state_root(b.state), pre |-> Here]
       IN  Built(build_block(consensus, state, store, transactions, now))
    /\ UNCHANGED <<st_call, mempoolVars, selection, now, consensus_lock, service, outbound>>

NextCommit ==
    \/ AdvanceClock
    \/ FundAccount(LocalAddress, 400)
    \/ \E transactions \in {<<Tx1>>, <<Tx2>>} : BuildBlock(transactions)
    \/ \E msg \in SlotInbound : ProcessReceivedBlock(msg)
    \/ \E msg \in SlotInbound, written \in 0 .. 2 : StoreFailsOnReceivedBlock(msg, written)
    \/ \E transactions \in {<<Tx1>>, <<Tx2>>}, written \in 0 .. 2 :
          StoreFailsOnProducedBlock(transactions, written)

SpecCommit == InitService /\ [][NextCommit]_vars

-----------------------------------------------------------------------------
(* C34: the transactions_root of a block does not depend on the order of    *)
(* its transactions and is all-zero for an empty list: the root create_block *)
(* writes into the header is the root of every permutation of the block's   *)
(* transactions, which is what validate_block recomputes for the permuted   *)
(* block.                                                                   *)
C34_TransactionsRootIgnoresOrder ==
    /\ calculate_transactions_root(<<>>) = B256_ZERO
    /\ call.op = "build_block" =>
          \A permuted \in Orders({ call.committed.transactions[i] :
                                     i \in 1 .. Len(call.committed.transactions) }) :
              calculate_transactions_root(permuted) = call.committed.header.transactions_root


-----------------------------------------------------------------------------
(* C35: apply_transaction makes its checks in the order gas price, range of *)
(* the gas limit, intrinsic gas, same address, balance of the sender,       *)
(* nonce, overflow of the recipient, and returns the error of the first     *)
(* check that fails; the balance check compares the balance with            *)
(* amount + gas_limit * gas_price and reports that sum as `needs`.          *)
C35_FirstFailedCheckIsReturned ==
    st_call.tx # NoTx =>
        LET tx == st_call.tx
            config == st_call.config
            sender == get_account(st_call.pre, tx.from)
            recipient == get_account(st_call.pre, tx.to)
            needs == tx.amount + tx.gas_limit * tx.gas_price
            first_failed ==
                IF tx.gas_price < config.min_gas_price THEN "GasPriceTooLow"
                ELSE IF tx.gas_limit < config.intrinsic_gas
                        \/ tx.gas_limit > config.block_gas_limit THEN "InvalidGasLimit"
                ELSE IF tx.gas_limit < config.intrinsic_gas + config.gas_per_byte * 40
                     THEN "InsufficientGas"
                ELSE IF tx.from = tx.to THEN "SameAddress"
                ELSE IF sender.balance < needs THEN "InsufficientBalance"
                ELSE IF tx.nonce # sender.nonce THEN "InvalidNonce"
                ELSE IF recipient.balance + tx.amount > U256_MAX THEN "BalanceOverflow"
                ELSE ""
        IN  first_failed # "" =>
                /\ st_call.result.kind = "Err"
                /\ st_call.result.error.name = first_failed
                /\ first_failed = "InsufficientBalance" =>
                      /\ st_call.result.error.a = sender.balance
                      /\ st_call.result.error.b = needs


-----------------------------------------------------------------------------
(* C36: simulate_execute_block returns, in their order, exactly the         *)
(* transactions for which at their turn the nonce is the sender's temporary *)
(* nonce, gas_limit is at least the floor and the sender's temporary        *)
(* balance is at least amount + gas_limit * gas_price; the temporary values *)
(* start from the state and move (nonce + 1, balance less that sum) only    *)
(* with admitted transactions of the same sender.                           *)
C36_SimulationAdmitsExactly ==
    call.op = "simulate_execute_block" =>
        LET Needs(tx) == tx.amount + tx.gas_limit * tx.gas_price
            RECURSIVE Admitted(_, _, _)
            Admitted(transactions, temp_nonce, temp_balance) ==
                IF transactions = <<>> THEN <<>>
                ELSE LET tx == Head(transactions)
                     IN  IF /\ tx.nonce = temp_nonce[tx.from]
                            /\ tx.gas_limit >= SimulateGasFloor
                            /\ temp_balance[tx.from] >= Needs(tx)
                         THEN <<tx>> \o Admitted(Tail(transactions),
                                           [temp_nonce EXCEPT ![tx.from] = @ + 1],
                                           [temp_balance EXCEPT ![tx.from] = @ - Needs(tx)])
                         ELSE Admitted(Tail(transactions), temp_nonce, temp_balance)
        IN  call.result = Admitted(call.transactions,
                                   [a \in Addresses |-> get_nonce(call.pre.state, a)],
                                   [a \in Addresses |-> get_balance(call.pre.state, a)])


-----------------------------------------------------------------------------
(* C37: Mempool::add_transaction rejects a transaction whose static checks  *)
(* fail, one with from = to in particular, with an error and without        *)
(* inserting it: no self-transfer is ever pending.                          *)
C37_NoSelfTransferPending ==
    /\ \A t \in mempool : t.from # t.to
    /\ (mp_call.result # "" /\ Mempool_validate_transaction(mp_call.tx) # "")
          => mp_call.result = "Err" /\ mempool = mp_call.pre


-----------------------------------------------------------------------------
(* C38: simulation and commit agree: when the batch simulate_execute_block  *)
(* admits on a state is executed in the same order by execute_block_commit  *)
(* on that state, every transaction of it succeeds.                         *)
C38_AdmittedTransactionsSucceed ==
    (/\ call.op = "execute_block_commit"
     /\ simulate_execute_block(call.pre.state, call.transactions) = call.transactions)
        => /\ ~call.panicked
           /\ \A i \in 1 .. Len(call.result.receipts) : call.result.receipts[i].success


-----------------------------------------------------------------------------
(* C39: the committed blocks form a hash chain: the block committed at a    *)
(* height above 1 names the header hash of the block committed one below    *)
(* as its parent_hash, the first committed block has index 1 and the        *)
(* all-zero parent_hash, and current_block_hash of the consensus engine is  *)
(* the header hash of the block committed last.                             *)
C39_HashChain ==
    LET Committed(h) == get_block_from_block_hash(store, store.hash_by_index[h])[1]
        heights == { h \in DOMAIN store.hash_by_index :
                       /\ h >= 1
                       /\ get_block_from_block_hash(store, store.hash_by_index[h])
                             # OptionNone }
    IN  /\ \A h \in heights :
              /\ Committed(h).header.index = h
              /\ h = 1 => Committed(h).header.parent_hash = B256_ZERO
              /\ (h > 1 /\ h - 1 \in heights) =>
                    Committed(h).header.parent_hash = store.hash_by_index[h - 1]
        /\ get_last_index(store) \in heights =>
              consensus.current_block_hash = store.hash_by_index[get_last_index(store)]


-----------------------------------------------------------------------------
(* C40: the total_gas_used execute_block_commit reports for a block never   *)
(* exceeds block_gas_limit, the configured maximum of gas per block.        *)
C40_BlockGasLimit ==
    (call.op = "execute_block_commit" /\ ~call.panicked) =>
        call.result.total_gas_used <= GasConfig_default.block_gas_limit

=============================================================================
